---------------------------- MODULE Spec2Model ----------------------------
(***************************************************************************)
(* A model of the support/resistance level pipeline (quantitative-mapping).*)
(*                                                                         *)
(* Numbers.  The program computes in f64.  The model computes exactly, in  *)
(* integers and fractions:                                                 *)
(*   - prices (high, low, close) are integers, in price units;            *)
(*   - an ATR value is a fraction [n |-> numerator, d |-> denominator];    *)
(*   - an ATR multiplier is an integer count of 1/MultDen;                 *)
(*   - a swing distance is an integer count of 1/DistDen price units.     *)
(* Comparisons of products are made by cross-multiplication, so no         *)
(* rounding is introduced.  NaN and the infinities are outside the model.  *)
(***************************************************************************)
EXTENDS Integers, Sequences, FiniteSets, TLC

VARIABLES
    swing_scan,     \* the frame of one call of detect_swings (swings.rs)
    search,         \* run_single_analysis up to its swing-count check (main.rs)
    evt,            \* the frame of one call of compute_evt_resistances (evt.rs)
    run,            \* the frame of run (main.rs)
    call            \* the frame of one call of a function checked on its own

vars == <<swing_scan, search, evt, run, call>>

\* What each component leaves alone.
notSwings == <<search, evt, run, call>>

notSearch == <<swing_scan, evt, run, call>>

notEvt == <<swing_scan, search, run, call>>

notRun == <<swing_scan, search, evt, call>>

notCall == <<swing_scan, search, evt, run>>

-----------------------------------------------------------------------------
(* Arithmetic helpers *)

Abs(x) == IF x < 0 THEN -x ELSE x

Max(a, b) == IF a >= b THEN a ELSE b

Min(a, b) == IF a <= b THEN a ELSE b

\* Units of the fixed-point encodings: a multiplier counts 1/10000, a swing
\* distance counts 1/100 of a price unit.
MultDen == 10 * 1000

DistDen == 10 * 10

\* The sequences of length 0..n over S.
SeqsUpTo(S, n) == UNION {[1..k -> S] : k \in 0..n}

RECURSIVE GCD(_, _)
GCD(a, b) == IF b = 0 THEN a ELSE GCD(b, a % b)

\* Fractions [n, d] with d > 0, kept in lowest terms.
Frac(n, d) ==
    LET g == GCD(Abs(n), d)
    IN  IF n = 0 THEN [n |-> 0, d |-> 1] ELSE [n |-> n \div g, d |-> d \div g]

FInt(k) == [n |-> k, d |-> 1]

FAdd(a, b) == Frac(a.n * b.d + b.n * a.d, a.d * b.d)

FSub(a, b) == Frac(a.n * b.d - b.n * a.d, a.d * b.d)

FMul(a, b) == Frac(a.n * b.n, a.d * b.d)

\* a / b for b > 0.
FDiv(a, b) == Frac(a.n * b.d, a.d * b.n)

\* -1, 0 or 1 as n1/d1 is below, equal to or above n2/d2 (d1, d2 > 0): the
\* integer parts decide, or else the fractional parts, by their reciprocals.
\* No product is formed, so tiny floors such as 1e-6 can be compared with.
RECURSIVE FCmp(_, _, _, _)
FCmp(n1, d1, n2, d2) ==
    LET q1 == n1 \div d1
        q2 == n2 \div d2
        r1 == n1 % d1
        r2 == n2 % d2
    IN  IF q1 # q2 THEN (IF q1 < q2 THEN -1 ELSE 1)
        ELSE IF r1 = 0 \/ r2 = 0
             THEN (IF r1 = r2 THEN 0 ELSE IF r1 = 0 THEN -1 ELSE 1)
             ELSE FCmp(d2, r2, d1, r1)

FLe(a, b) == FCmp(a.n, a.d, b.n, b.d) <= 0

FLt(a, b) == FCmp(a.n, a.d, b.n, b.d) < 0

FMax(a, b) == IF FLe(b, a) THEN a ELSE b

FMin(a, b) == IF FLe(a, b) THEN a ELSE b

FAbs(a) == [n |-> Abs(a.n), d |-> a.d]

\* Sums, by halves: the arithmetic is exact, so the order does not matter.
RECURSIVE FSumRange(_, _, _)
FSumRange(s, lo, hi) ==
    IF lo > hi THEN FInt(0)
    ELSE IF lo = hi THEN s[lo]
    ELSE FAdd(FSumRange(s, lo, (lo + hi) \div 2), FSumRange(s, (lo + hi) \div 2 + 1, hi))

FSum(s) == FSumRange(s, 1, Len(s))

RECURSIVE SumRange(_, _, _)
SumRange(s, lo, hi) ==
    IF lo > hi THEN 0
    ELSE IF lo = hi THEN s[lo]
    ELSE SumRange(s, lo, (lo + hi) \div 2) + SumRange(s, (lo + hi) \div 2 + 1, hi)

Sum(s) == SumRange(s, 1, Len(s))

-----------------------------------------------------------------------------
(* data.rs: Bar, SwingPoint *)

Bar(ts, h, l, c, v) == [timestamp |-> ts, high |-> h, low |-> l, close |-> c, volume |-> v]

SwingPoint(i, b, p, t, a) == [index |-> i, bar |-> b, price |-> p, swing_type |-> t, atr |-> a]

\* atr.get(i).copied().unwrap_or(dflt), with the source's 0-based index i.
AtrGet(atr, i, dflt) == IF i + 1 <= Len(atr) THEN atr[i + 1] ELSE dflt

ZeroAtr == [n |-> 0, d |-> 1]

-----------------------------------------------------------------------------
(* analysis/atr.rs *)

\* The true range without its floor at zero.
TrueRangeUnfloored(bars, idx) ==
    IF idx = 0 THEN bars[1].high - bars[1].low
    ELSE Max(Max(bars[idx + 1].high - bars[idx + 1].low,
                 Abs(bars[idx + 1].high - bars[idx].close)),
             Abs(bars[idx + 1].low - bars[idx].close))

\* The true range of bar idx (0-based), floored at 0 (lines 11-20).
TrueRange(bars, idx) ==
    LET bar == bars[idx + 1] IN
    IF idx = 0 THEN Max(bar.high - bar.low, 0)
    ELSE LET prev == bars[idx] IN
         Max(Max(Max(bar.high - bar.low, Abs(bar.high - prev.close)),
                 Abs(bar.low - prev.close)), 0)

\* Wilder's smoothing (lines 32-37): smoothed holds atr_values from the
\* 0-based index period - 1 on, and grows by one value per pass of the loop.
RECURSIVE WilderFrom(_, _, _)
WilderFrom(smoothed, true_ranges, period) ==
    IF Len(smoothed) + period - 1 >= Len(true_ranges) THEN smoothed
    ELSE WilderFrom(Append(smoothed,
                           FDiv(FAdd(FMul(smoothed[Len(smoothed)], FInt(period - 1)),
                                     FInt(true_ranges[Len(smoothed) + period])),
                                FInt(period))),
                    true_ranges, period)

compute_atr(bars, period) ==
    IF bars = <<>> \/ period = 0 THEN <<>>
    ELSE LET true_ranges == [i \in 1..Len(bars) |-> TrueRange(bars, i - 1)] IN
         IF Len(true_ranges) < period
         THEN [i \in 1..Len(bars) |-> Frac(Sum(true_ranges), Len(true_ranges))]
         ELSE LET initial  == Frac(Sum(SubSeq(true_ranges, 1, period)), period)
                  smoothed == WilderFrom(<<initial>>, true_ranges, period)
              IN  [i \in 1..Len(bars) |-> IF i <= period THEN initial
                                          ELSE smoothed[i - period + 1]]

\* mean_atr of run_single_analysis (main.rs 413-417) and evaluate_levels.
MeanAtr(atr) == IF atr = <<>> THEN FInt(0) ELSE FDiv(FSum(atr), FInt(Len(atr)))

-----------------------------------------------------------------------------
(* Sorting *)

\* slice::sort_by, a stable sort: Before(a, b) is "the comparison puts a
\* strictly before b".  Element i goes after every element strictly before it
\* and after the earlier elements that compare equal to it.
StableSort(s, Before(_, _)) ==
    LET n    == Len(s)
        rank == SubSeq([i \in 1..n |->
                    Cardinality({j \in 1..n :
                        Before(s[j], s[i]) \/ (~Before(s[i], s[j]) /\ j < i)}) + 1], 1, n)
    IN  SubSeq([p \in 1..n |-> s[CHOOSE i \in 1..n : rank[i] = p]], 1, n)

\* Vec::truncate(n)
Truncate(s, n) == IF Len(s) > n THEN SubSeq(s, 1, n) ELSE s

RECURSIVE MaxRange(_, _, _, _)
MaxRange(s, lo, hi, init) ==
    IF lo > hi THEN init
    ELSE IF lo = hi THEN Max(init, s[lo])
    ELSE Max(MaxRange(s, lo, (lo + hi) \div 2, init), MaxRange(s, (lo + hi) \div 2 + 1, hi, init))

\* fold(init, max) over a sequence of integers.
MaxOf(s, init) == MaxRange(s, 1, Len(s), init)

-----------------------------------------------------------------------------
(* analysis/swings.rs *)

\* push_swing: append unless the last swing has the same (index, type).
push_swing(swings, swing) ==
    IF Len(swings) > 0
         /\ swings[Len(swings)].index = swing.index
         /\ swings[Len(swings)].swing_type = swing.swing_type
    THEN swings
    ELSE Append(swings, swing)

\* The threshold of the ATR alone.
ReachesAtrThreshold(diff, atr_val, atr_multiplier, min_swing_distance) ==
    diff * atr_val.d * MultDen >= Abs(atr_val.n * atr_multiplier)

\* The threshold without its floor of 1e-6.
ReachesUnflooredThreshold(diff, atr_val, atr_multiplier, min_swing_distance) ==
    /\ diff * atr_val.d * MultDen >= Abs(atr_val.n * atr_multiplier)
    /\ diff * DistDen >= min_swing_distance

\* diff >= threshold, where
\*   threshold = (atr_val * atr_multiplier).abs().max(min_swing_distance).max(1e-6).
\* diff is an integer price difference, so diff >= 1e-6 is diff >= 1.
ReachesThreshold(diff, atr_val, atr_multiplier, min_swing_distance) ==
    /\ diff * atr_val.d * MultDen >= Abs(atr_val.n * atr_multiplier)
    /\ diff * DistDen >= min_swing_distance
    /\ diff >= 1

\* The High guard without the index-after-last-pivot guard.
HighConfirmedAnyIndex(s, atr_val, atr_multiplier, min_swing_distance) ==
    ReachesThreshold(s.candidate_high_price - s.last_price,
                     atr_val, atr_multiplier, min_swing_distance)

\* A High pivot is confirmed from state s (last pivot a Low).
HighConfirmed(s, atr_val, atr_multiplier, min_swing_distance) ==
    /\ ReachesThreshold(s.candidate_high_price - s.last_price,
                        atr_val, atr_multiplier, min_swing_distance)
    /\ s.candidate_high_idx > s.last_index

\* A Low pivot is confirmed from state s (last pivot a High).
LowConfirmed(s, atr_val, atr_multiplier, min_swing_distance) ==
    /\ ReachesThreshold(s.last_price - s.candidate_low_price,
                        atr_val, atr_multiplier, min_swing_distance)
    /\ s.candidate_low_idx > s.last_index

\* A High pivot typed as a Low.
HighPivotTypedLow(index, pivot_bar, atr_val) ==
    SwingPoint(index, pivot_bar, pivot_bar.high, "Low", atr_val)

\* The swing point of a confirmed High (56-62) and of a confirmed Low (76-82).
HighPivot(index, pivot_bar, atr_val) ==
    SwingPoint(index, pivot_bar, pivot_bar.high, "High", atr_val)

LowPivot(index, pivot_bar, atr_val) ==
    SwingPoint(index, pivot_bar, pivot_bar.low, "Low", atr_val)

\* The state of the scan after lines 14-30: the implicit initial Low.
\* atr_val is the local of the loop body, here before its first pass.
SwingScanInit(bars, atr) ==
    LET initial_atr == AtrGet(atr, 0, ZeroAtr) IN
    [ swings               |-> <<SwingPoint(0, bars[1], bars[1].low, "Low", initial_atr)>>,
      last_type            |-> "Low",
      last_index           |-> 0,
      last_price           |-> bars[1].low,
      initial_atr          |-> initial_atr,
      atr_val              |-> initial_atr,
      candidate_high_price |-> bars[1].high,
      candidate_high_idx   |-> 0,
      candidate_low_price  |-> bars[1].low,
      candidate_low_idx    |-> 0 ]

\* One iteration of the loop over idx in 1..bars.len() (lines 33-91).
SwingScanStep(s, bars, atr, atr_multiplier, min_swing_distance, idx) ==
    LET bar     == bars[idx + 1]
        atr_val == AtrGet(atr, idx, s.initial_atr)
        s0 == [s EXCEPT !.atr_val = atr_val]
        s1 == IF bar.high >= s0.candidate_high_price
              THEN [s0 EXCEPT !.candidate_high_price = bar.high, !.candidate_high_idx = idx]
              ELSE s0
        s2 == IF bar.low <= s1.candidate_low_price
              THEN [s1 EXCEPT !.candidate_low_price = bar.low, !.candidate_low_idx = idx]
              ELSE s1
    IN  IF s2.last_type = "Low"
        THEN IF HighConfirmed(s2, atr_val, atr_multiplier, min_swing_distance)
             THEN LET pivot_bar == bars[s2.candidate_high_idx + 1] IN
                  [s2 EXCEPT
                     !.swings = push_swing(s2.swings,
                                   HighPivot(s2.candidate_high_idx, pivot_bar,
                                             AtrGet(atr, s2.candidate_high_idx, atr_val))),
                     !.last_type = "High",
                     !.last_index = s2.candidate_high_idx,
                     !.last_price = pivot_bar.high,
                     !.candidate_low_idx = s2.candidate_high_idx,
                     !.candidate_low_price = pivot_bar.low]
             ELSE s2
        ELSE IF LowConfirmed(s2, atr_val, atr_multiplier, min_swing_distance)
             THEN LET pivot_bar == bars[s2.candidate_low_idx + 1] IN
                  [s2 EXCEPT
                     !.swings = push_swing(s2.swings,
                                   LowPivot(s2.candidate_low_idx, pivot_bar,
                                            AtrGet(atr, s2.candidate_low_idx, atr_val))),
                     !.last_type = "Low",
                     !.last_index = s2.candidate_low_idx,
                     !.last_price = pivot_bar.low,
                     !.candidate_high_idx = s2.candidate_low_idx,
                     !.candidate_high_price = pivot_bar.high]
             ELSE s2

IndexBefore(a, b) == a.index < b.index

\* swings.sort_by_key(|s| s.index)
SortByIndex(s) == StableSort(s, IndexBefore)

\* swings.dedup_by(|a, b| a.index == b.index && a.swing_type == b.swing_type):
\* an element equal, in that sense, to the last kept one is dropped, which
\* for this equality is one equal to the element before it.
DedupSwings(s) ==
    LET kept == SelectSeq([i \in 1..Len(s) |-> i],
                          LAMBDA i : i = 1 \/ s[i].index # s[i - 1].index
                                           \/ s[i].swing_type # s[i - 1].swing_type)
    IN  [k \in 1..Len(kept) |-> s[kept[k]]]

\* Lines 94-96.
SwingScanFinish(s) == DedupSwings(SortByIndex(s.swings))

\* The for loop from the frame [idx, s] on.
RECURSIVE SwingScanFrom(_, _, _, _, _)
SwingScanFrom(frame, bars, atr, atr_multiplier, min_swing_distance) ==
    IF frame.idx >= Len(bars) THEN frame.s
    ELSE SwingScanFrom([ idx |-> frame.idx + 1,
                         s   |-> SwingScanStep(frame.s, bars, atr, atr_multiplier,
                                               min_swing_distance, frame.idx) ],
                       bars, atr, atr_multiplier, min_swing_distance)

\* detect_swings as a function of its arguments.
detect_swings(bars, atr, atr_multiplier, min_swing_distance) ==
    IF bars = <<>> THEN <<>>
    ELSE SwingScanFinish(SwingScanFrom([idx |-> 1, s |-> SwingScanInit(bars, atr)], bars, atr,
                                       atr_multiplier, min_swing_distance))

-----------------------------------------------------------------------------
(* detect_swings, one loop iteration per step *)

\* Bounds of the inputs of the swing scan.
MaxScanBars == 4

\* The prices of the bars of the swing scan.
ScanPrices == {0, 1, 2}

\* A bar's high is not below its low.
ScanBarShapes ==
    {Bar(0, c[1], c[2], c[2], 1) : c \in {c \in ScanPrices \X ScanPrices : c[1] >= c[2]}}

\* Bars carry their position as timestamp (strictly increasing, loader.rs).
Stamp(bars) == [i \in 1..Len(bars) |-> [bars[i] EXCEPT !.timestamp = i]]

\* ATR series handed to the scan: empty, shorter than the bars, or as long.
ScanAtrSeqs ==
    LET a0 == [n |-> 0, d |-> 1]
        a2 == [n |-> 2, d |-> 1]
    IN  {<<>>, <<a0>>, <<a2>>, <<a0, a2>>, <<a2, a0>>}

ScanMultipliers == {0, MultDen}

ScanDistances == {0, 2 * DistDen, 3 * DistDen}

\* Frames of the components a specification does not run.
IdleSwings == swing_scan = [pc |-> "idle"]

IdleSearch == search = [pc |-> "idle"]

IdleEvt == evt = [pc |-> "idle"]

IdleRun == run = [pc |-> "idle"]

IdleCall == call = [pc |-> "idle"]

SwingsInit ==
    /\ IdleSearch /\ IdleEvt /\ IdleRun /\ IdleCall
    /\ \E bars \in SeqsUpTo(ScanBarShapes, MaxScanBars),
       atr \in ScanAtrSeqs,
       m \in ScanMultipliers, dist \in ScanDistances :
        /\ Len(atr) <= Len(bars)
        /\ swing_scan = [ pc                 |-> "loop",
                          bars               |-> Stamp(bars),
                          atr                |-> atr,
                          atr_multiplier     |-> m,
                          min_swing_distance |-> dist,
                          idx                |-> 1,
                          s                  |-> IF bars = <<>> THEN <<>>
                                                 ELSE SwingScanInit(Stamp(bars), atr),
                          result             |-> <<>> ]

\* One iteration of the for loop.
ScanBar ==
    /\ swing_scan.pc = "loop"
    /\ swing_scan.idx < Len(swing_scan.bars)
    /\ swing_scan' = [swing_scan EXCEPT
                        !.s = SwingScanStep(swing_scan.s, swing_scan.bars, swing_scan.atr,
                                            swing_scan.atr_multiplier,
                                            swing_scan.min_swing_distance, swing_scan.idx),
                        !.idx = swing_scan.idx + 1]
    /\ UNCHANGED notSwings

\* The loop is over (or the bars are empty): sort, dedup, return.
ScanReturn ==
    /\ swing_scan.pc = "loop"
    /\ swing_scan.idx >= Len(swing_scan.bars)
    /\ swing_scan' = [swing_scan EXCEPT
                        !.pc = "done",
                        !.result = IF swing_scan.bars = <<>> THEN <<>>
                                   ELSE SwingScanFinish(swing_scan.s)]
    /\ UNCHANGED notSwings

SwingsNext == ScanBar \/ ScanReturn

SpecSwings == SwingsInit /\ [][SwingsNext]_vars

\* The stepwise scan returns what detect_swings, as a function, returns.
ScanAgreesWithFunction ==
    swing_scan.pc = "done" =>
        swing_scan.result = detect_swings(swing_scan.bars, swing_scan.atr,
                                          swing_scan.atr_multiplier,
                                          swing_scan.min_swing_distance)

-----------------------------------------------------------------------------
(* analysis/clustering.rs *)

PriceBefore(a, b) == a.price < b.price

IntBefore(a, b) == a < b

\* median of a non-empty sequence of integers, as a fraction.
median(values) ==
    LET sorted == StableSort(values, IntBefore)
        mid    == Len(sorted) \div 2       \* 0-based
    IN  IF Len(sorted) % 2 = 0
        THEN Frac(sorted[mid] + sorted[mid + 1], 2)
        ELSE FInt(sorted[mid + 1])

auto_dbscan_epsilon(swings) ==
    IF Len(swings) < 2 THEN FInt(0)
    ELSE LET prices == StableSort([i \in 1..Len(swings) |-> swings[i].price], IntBefore)
             diffs  == [i \in 1..(Len(prices) - 1) |-> Abs(prices[i + 1] - prices[i])]
             med    == median(diffs)
         IN  IF med.n > 0 THEN med
             ELSE Frac(Max(Abs(prices[Len(prices)]), 1), 1000)

\* The cluster of a run of swings pushed, its swings added to the inliers
\* (lines 85-105); r is [clusters, inliers], buffer the run.
EmitCluster(r, buffer) ==
    LET total_volume == Sum([i \in 1..Len(buffer) |-> buffer[i].bar.volume])
        representative_price ==
            IF total_volume > 0
            THEN Frac(Sum([i \in 1..Len(buffer) |-> buffer[i].price * buffer[i].bar.volume]),
                      total_volume)
            ELSE Frac(Sum([i \in 1..Len(buffer) |-> buffer[i].price]), Len(buffer))
    IN  [ clusters |-> Append(r.clusters,
                          [ id                   |-> Len(r.clusters),
                            representative_price |-> representative_price,
                            total_volume         |-> total_volume,
                            swing_count          |-> Len(buffer) ]),
          inliers  |-> r.inliers \o buffer ]

\* The run is emitted whatever its length.
EmitUnchecked(r, buffer, min_points) == EmitCluster(r, buffer)

maybe_emit_cluster(r, buffer, min_points) ==
    IF Len(buffer) < min_points THEN r ELSE EmitCluster(r, buffer)

\* The loop of cluster_swings over the price-sorted swings: frame is
\* [i, r, buffer], i the position of the next swing.
RECURSIVE ClusterFrom(_, _, _, _)
ClusterFrom(sorted, frame, epsilon, min_points) ==
    IF frame.i > Len(sorted) THEN maybe_emit_cluster(frame.r, frame.buffer, min_points)
    ELSE LET swing == sorted[frame.i] IN
         IF frame.buffer = <<>>
         THEN ClusterFrom(sorted, [frame EXCEPT !.i = frame.i + 1, !.buffer = <<swing>>],
                          epsilon, min_points)
         ELSE IF FLe(FInt(Abs(swing.price - frame.buffer[Len(frame.buffer)].price)), epsilon)
              THEN ClusterFrom(sorted, [frame EXCEPT !.i = frame.i + 1,
                                                     !.buffer = Append(frame.buffer, swing)],
                               epsilon, min_points)
              ELSE ClusterFrom(sorted,
                               [ i      |-> frame.i + 1,
                                 r      |-> maybe_emit_cluster(frame.r, frame.buffer, min_points),
                                 buffer |-> <<swing>> ],
                               epsilon, min_points)

cluster_swings(swings, epsilon, min_points) ==
    IF swings = <<>> \/ epsilon.n <= 0
    THEN [clusters |-> <<>>, inliers |-> <<>>]
    ELSE ClusterFrom(StableSort(swings, PriceBefore),
                     [i |-> 1, r |-> [clusters |-> <<>>, inliers |-> <<>>], buffer |-> <<>>],
                     epsilon, min_points)

-----------------------------------------------------------------------------
(* analysis/density.rs *)

\* The Gaussian kernel sums (exp, sqrt) are not computed: the densities of the
\* grid points are given by kde, a sequence of grid_points non-negative
\* integers that stands for whatever the kernels evaluate to.  When the grid
\* is empty and where its prices lie is computed as the code does; the
\* bandwidths, which are only printed, are left out.
\*
\* margin = max(range, std_dev) * 0.15: the weighted standard deviation of
\* prices within [min, max] is at most range / 2, so for range > 0 the
\* margin is 0.15 * range; for range = 0, std_dev is floored at 1e-6.
DensityMargin(range) == IF range > 0 THEN Frac(15 * range, 100) ELSE Frac(15, 100000000)

EmptyDensity == [grid |-> <<>>, max_density |-> 0]

compute_density_curve(swings, grid_points, kde) ==
    IF swings = <<>> \/ grid_points < 3 \/ Len(swings) < 2 THEN EmptyDensity
    ELSE LET prices    == [i \in 1..Len(swings) |-> swings[i].price]
             lo        == -MaxOf([i \in 1..Len(prices) |-> -prices[i]], -prices[1])
             hi        == MaxOf(prices, prices[1])
             margin    == DensityMargin(Abs(hi - lo))
             min_price == FSub(FInt(lo), margin)
             max_price == FAdd(FInt(hi), margin)
             step      == FDiv(FSub(max_price, min_price), FInt(grid_points - 1))
         IN  [ grid |-> [idx \in 1..grid_points |->
                            [ price   |-> FAdd(min_price, FMul(step, FInt(idx - 1))),
                              density |-> kde[idx] ]],
               max_density |-> MaxOf(kde, 0) ]

-----------------------------------------------------------------------------
(* analysis/peaks.rs *)

ProminenceBefore(a, b) == a.prominence > b.prominence

\* A maximum that may be level with its right neighbour.
IsPeakOrPlateau(grid, i) ==
    ~(grid[i + 1].density <= grid[i].density \/ grid[i + 1].density < grid[i + 2].density)

\* The peak measured from the higher of its neighbours.
PeakAtHigherBase(grid, i) ==
    [ price      |-> grid[i + 1].price,
      density    |-> grid[i + 1].density,
      prominence |-> grid[i + 1].density - Max(grid[i].density, grid[i + 2].density) ]

\* A strict local maximum at the 0-based interior grid index i.
IsPeak(grid, i) ==
    ~(grid[i + 1].density <= grid[i].density \/ grid[i + 1].density <= grid[i + 2].density)

PeakAt(grid, i) ==
    LET prev == grid[i]
        curr == grid[i + 1]
        next == grid[i + 2]
        left_base  == Min(prev.density, curr.density)
        right_base == Min(next.density, curr.density)
    IN  [ price      |-> curr.price,
          density    |-> curr.density,
          prominence |-> curr.density - Min(left_base, right_base) ]

RECURSIVE PeaksFrom(_, _)
PeaksFrom(grid, i) ==
    IF i > Len(grid) - 2 THEN <<>>
    ELSE IF IsPeak(grid, i) THEN <<PeakAt(grid, i)>> \o PeaksFrom(grid, i + 1)
         ELSE PeaksFrom(grid, i + 1)

detect_peaks(density) ==
    IF Len(density.grid) < 3 THEN <<>>
    ELSE StableSort(PeaksFrom(density.grid, 1), ProminenceBefore)

-----------------------------------------------------------------------------
(* data.rs: PerformanceStats, Level *)

\* PerformanceStats::empty()
EmptyPerformance ==
    [ touches |-> 0, tests |-> 0, hit_rate |-> FInt(0), avg_reaction |-> FInt(0),
      max_favorable_excursion |-> FInt(0), avg_reaction_bars |-> FInt(0) ]

Level(price, density, confidence, confidence_band, level_type, performance, distance) ==
    [ price |-> price, density |-> density, confidence |-> confidence,
      confidence_band |-> confidence_band, level_type |-> level_type,
      performance |-> performance, distance_from_last |-> distance ]

\* x.clamp(0.0, 1.0)
Clamp01(x) == FMax(FInt(0), FMin(x, FInt(1)))

ConfidenceBefore(a, b) == FLt(b.confidence, a.confidence)

-----------------------------------------------------------------------------
(* analysis/levels.rs *)

\* truncate(max_levels) left out.
LevelsNotTruncated(levels, max_levels) == levels

\* levels.truncate(max_levels) (line 60)
LevelsTruncated(levels, max_levels) == Truncate(levels, max_levels)

\* The level of one peak (lines 24-52).  Densities are integers, so a peak's
\* prominence is at least 1 and the 1e-9 floor of max_prominence never binds.
LevelOfPeak(peak, max_density, max_prominence, current_price, mean_atr, confidence_band_multiplier) ==
    LET density_score ==
            IF max_density > 0 THEN Clamp01(Frac(peak.density, max_density)) ELSE FInt(0)
        prominence_score == Clamp01(Frac(peak.prominence, max_prominence))
        confidence == FAdd(FMul(Frac(6, 10), density_score), FMul(Frac(4, 10), prominence_score))
        base_band  == FMul(mean_atr, confidence_band_multiplier)
        confidence_band ==
            IF base_band.n > 0 THEN base_band
            ELSE FMax(FMul(FAbs(peak.price), Frac(1, 1000)), Frac(25, 100))
        level_type == IF FLe(FInt(current_price), peak.price) THEN "Resistance" ELSE "Support"
    IN  Level(peak.price, peak.density, confidence, confidence_band, level_type,
              EmptyPerformance, FAbs(FSub(peak.price, FInt(current_price))))

build_levels(peaks, max_density, current_price, mean_atr, confidence_band_multiplier, max_levels) ==
    IF peaks = <<>> THEN <<>>
    ELSE LET max_prominence == MaxOf([i \in 1..Len(peaks) |-> peaks[i].prominence], 0)
             levels == [i \in 1..Len(peaks) |->
                           LevelOfPeak(peaks[i], max_density, max_prominence, current_price,
                                       mean_atr, confidence_band_multiplier)]
         IN  LevelsTruncated(StableSort(levels, ConfidenceBefore), max_levels)

-----------------------------------------------------------------------------
(* analysis/stats.rs *)

\* The test of the upper side of the band alone.
TouchedFromBelow(level, bar) ==
    FLe(FInt(bar.low), FAdd(level.price, level.confidence_band))

\* bar.low <= price + tolerance && bar.high >= price - tolerance
Touched(level, bar) ==
    /\ FLe(FInt(bar.low), FAdd(level.price, level.confidence_band))
    /\ FLe(FSub(level.price, level.confidence_band), FInt(bar.high))

\* The favourable movement of a forward bar (lines 43-46).
Movement(level, forward_bar) ==
    IF level.level_type = "Support"
    THEN FSub(FInt(forward_bar.high), level.price)
    ELSE FSub(level.price, FInt(forward_bar.low))

\* The forward scan from a touch at the 0-based idx: r is [best_move,
\* bars_to_best, success]; forward_idx runs to end - 1 (lines 37-54).
RECURSIVE ForwardScan(_, _, _, _, _, _, _)
ForwardScan(level, bars, idx, forward_idx, end, needed, r) ==
    IF forward_idx >= end THEN r
    ELSE LET movement == Movement(level, bars[forward_idx + 1])
             r1 == IF FLt(r.best_move, movement)
                   THEN [r EXCEPT !.best_move = movement, !.bars_to_best = forward_idx - idx]
                   ELSE r
             r2 == IF FLe(needed, movement) THEN [r1 EXCEPT !.success = TRUE] ELSE r1
         IN  ForwardScan(level, bars, idx, forward_idx + 1, end, needed, r2)

\* The ATR of the touch without its floor of 1e-6.
AtrRefUnfloored(atr, idx, mean_atr) == AtrGet(atr, idx, mean_atr)

\* atr.get(idx).copied().unwrap_or(mean_atr).max(1e-6)
AtrRef(atr, idx, mean_atr) == FMax(AtrGet(atr, idx, mean_atr), Frac(1, 1000000))

\* The scan of the bars for one level: acc holds the 0-based idx of the next
\* bar and the counters of lines 20-25.
RECURSIVE LevelScan(_, _, _, _, _, _, _)
LevelScan(level, bars, atr, mean_atr, reaction_lookahead, reaction_move_atr, acc) ==
    IF acc.idx >= Len(bars) THEN acc
    ELSE IF ~Touched(level, bars[acc.idx + 1])
         THEN LevelScan(level, bars, atr, mean_atr, reaction_lookahead, reaction_move_atr,
                        [acc EXCEPT !.idx = acc.idx + 1])
         ELSE LET idx == acc.idx
                  end == Min(idx + reaction_lookahead + 1, Len(bars))
                  r   == ForwardScan(level, bars, idx, idx + 1, end,
                                     FMul(reaction_move_atr, AtrRef(atr, idx, mean_atr)),
                                     [best_move |-> FInt(0), bars_to_best |-> 0,
                                      success |-> FALSE])
              IN  LevelScan(level, bars, atr, mean_atr, reaction_lookahead, reaction_move_atr,
                            [ idx     |-> idx + 1,
                              tests   |-> acc.tests + 1,
                              touches |-> acc.touches + 1,
                              hits    |-> acc.hits + (IF r.success THEN 1 ELSE 0),
                              total_reaction |-> FAdd(acc.total_reaction, r.best_move),
                              max_reaction   |-> FMax(acc.max_reaction, r.best_move),
                              total_reaction_bars |-> acc.total_reaction_bars + r.bars_to_best ])

\* The performance of one level (lines 19-77).
LevelPerformance(level, bars, atr, reaction_lookahead, reaction_move_atr) ==
    LET acc == LevelScan(level, bars, atr, MeanAtr(atr), reaction_lookahead, reaction_move_atr,
                         [ idx |-> 0, tests |-> 0, touches |-> 0, hits |-> 0,
                           total_reaction |-> FInt(0), max_reaction |-> FInt(0),
                           total_reaction_bars |-> 0 ])
    IN  IF acc.tests > 0
        THEN [ touches  |-> acc.touches,
               tests    |-> acc.tests,
               hit_rate |-> Frac(acc.hits, acc.tests),
               avg_reaction |-> FDiv(acc.total_reaction, FInt(acc.tests)),
               max_favorable_excursion |-> acc.max_reaction,
               avg_reaction_bars |-> Frac(acc.total_reaction_bars, acc.tests) ]
        ELSE EmptyPerformance

\* The evaluation of the levels not tested before only.
EvaluateUntested(levels, bars, atr, reaction_lookahead, reaction_move_atr) ==
    IF bars = <<>> THEN levels
    ELSE [i \in 1..Len(levels) |->
             IF levels[i].performance.tests > 0 THEN levels[i]
             ELSE [levels[i] EXCEPT !.performance =
                      LevelPerformance(levels[i], bars, atr, reaction_lookahead,
                                       reaction_move_atr)]]

evaluate_levels(levels, bars, atr, reaction_lookahead, reaction_move_atr) ==
    IF bars = <<>> THEN levels
    ELSE [i \in 1..Len(levels) |->
             [levels[i] EXCEPT !.performance =
                 LevelPerformance(levels[i], bars, atr, reaction_lookahead, reaction_move_atr)]]

-----------------------------------------------------------------------------
(* analysis/evt.rs *)

\* bars.len() < 50
MinEvtBars == 50

\* nu < 5
MinExceedances == 5

\* The exceedances: value - threshold for the values above the threshold.
SelectAbove(highs, threshold) ==
    LET above == SelectSeq(highs, LAMBDA value : value > threshold)
    IN  [i \in 1..Len(above) |-> above[i] - threshold]

\* (shape, scale) of the generalized Pareto fit by moments (lines 44-65).
GpdFit(exceedances) ==
    LET nu          == Len(exceedances)
        mean_excess == Frac(Sum(exceedances), nu)
        variance    ==
            FDiv(FSum([i \in 1..nu |->
                         FMul(FSub(FInt(exceedances[i]), mean_excess),
                              FSub(FInt(exceedances[i]), mean_excess))]),
                 FInt(Max(nu - 1, 1)))
        floor_scale == FMax(mean_excess, Frac(1, 1000000))
    IN  IF variance.n > 0
        THEN LET xi    == FMul(Frac(1, 2), FSub(FInt(1), FDiv(FMul(mean_excess, mean_excess), variance)))
                 sigma == FMul(mean_excess, FSub(FInt(1), xi))
             IN  IF sigma.n <= 0 THEN [shape |-> FInt(0), scale |-> floor_scale]
                 ELSE [shape |-> xi, scale |-> sigma]
        ELSE [shape |-> FInt(0), scale |-> floor_scale]

\* The amount projected above the threshold (lines 76-82):
\*   scale * ln(ratio)                        when |shape| <= 1e-6,
\*   (scale / shape) * (ratio^shape - 1)      otherwise,
\* for ratio > 1 and scale > 0.  ln and powf are not computed.  The value lies
\* between two fractions that are:
\*   with l = 1 - 1/ratio <= ln(ratio) <= ratio - 1 and shape <= 1/2,
\*     shape >= 0:  scale * l             <= value <= scale * (ratio - 1)
\*     shape <  0:  scale * l / (1 - shape * l) <= value <= scale * (ratio - 1)
\* and where says which of the lower bound, the middle and the upper bound
\* stands for it.
GpdExcess(fit, ratio, where) ==
    LET l     == FSub(FInt(1), FDiv(FInt(1), ratio))
        lower == IF fit.shape.n >= 0 THEN FMul(fit.scale, l)
                 ELSE FDiv(FMul(fit.scale, l), FSub(FInt(1), FMul(fit.shape, l)))
        upper == FMul(fit.scale, FSub(ratio, FInt(1)))
    IN  CASE where = "lower" -> lower
          [] where = "upper" -> upper
          [] OTHER           -> FDiv(FAdd(lower, upper), FInt(2))

\* An EVT level at price for the tail probability p (lines 87-99, 110-122).
EvtLevel(price, p, confidence_band, current_price) ==
    Level(price, 0, Clamp01(p),
          IF confidence_band.n <= 0 THEN FMax(FMul(FAbs(price), Frac(1, 1000)), FInt(1))
          ELSE confidence_band,
          "Resistance", EmptyPerformance, FAbs(FSub(price, FInt(current_price))))

\* The loop body without the cap at max_high + 5 * max(band, 1).
ProjectedLevelUncapped(p, where, threshold, max_high, lambda, fit, confidence_band, current_price) ==
    LET tail_prob == FSub(FInt(1), p) IN
    IF ~(FLe(FInt(0), p) /\ FLt(p, FInt(1))) THEN <<>>
    ELSE IF tail_prob.n <= 0 \/ FLe(lambda, tail_prob) THEN <<>>
    ELSE LET projected == FAdd(FInt(threshold), GpdExcess(fit, FDiv(lambda, tail_prob), where))
         IN  IF FLe(projected, FInt(threshold)) \/ FLe(projected, FInt(current_price))
             THEN <<>>
             ELSE <<EvtLevel(projected, p, confidence_band, current_price)>>

\* The body of the loop over tail_probs for the i-th probability: the level
\* it pushes, as a sequence of zero or one level (lines 68-101).
ProjectedLevel(p, where, threshold, max_high, lambda, fit, confidence_band, current_price) ==
    LET tail_prob == FSub(FInt(1), p) IN
    IF ~(FLe(FInt(0), p) /\ FLt(p, FInt(1))) THEN <<>>
    ELSE IF tail_prob.n <= 0 \/ FLe(lambda, tail_prob) THEN <<>>
    ELSE LET ratio     == FDiv(lambda, tail_prob)
             raw       == FAdd(FInt(threshold), GpdExcess(fit, ratio, where))
             projected == FMin(raw, FAdd(FInt(max_high),
                                         FMul(FMax(confidence_band, FInt(1)), FInt(5))))
         IN  IF FLe(projected, FInt(threshold)) \/ FLe(projected, FInt(current_price))
             THEN <<>>
             ELSE <<EvtLevel(projected, p, confidence_band, current_price)>>

RECURSIVE ProjectedLevels(_, _, _, _, _, _, _, _, _)
ProjectedLevels(tail_probs, gpd, i, threshold, max_high, lambda, fit, confidence_band, current_price) ==
    IF i > Len(tail_probs) THEN <<>>
    ELSE ProjectedLevel(tail_probs[i], gpd[i], threshold, max_high, lambda, fit,
                        confidence_band, current_price)
         \o ProjectedLevels(tail_probs, gpd, i + 1, threshold, max_high, lambda, fit,
                            confidence_band, current_price)

\* No fallback level: what the loop pushed is returned as it is.
NoFallbackLevel(levels, tail_probs, max_high, confidence_band, current_price) == levels

\* The fallback level without the branch that anchors it to current_price.
FallbackNotAnchored(levels, tail_probs, max_high, confidence_band, current_price) ==
    IF levels # <<>> THEN levels
    ELSE <<EvtLevel(FMin(FAdd(FInt(max_high), FMax(confidence_band, FInt(1))),
                         FAdd(FInt(max_high), FMul(FMax(confidence_band, FInt(1)), FInt(5)))),
                    tail_probs[1], confidence_band, current_price)>>

\* The fallback level when the loop pushed nothing (lines 103-125).
FallbackLevel(levels, tail_probs, max_high, confidence_band, current_price) ==
    IF levels # <<>> THEN levels
    ELSE LET step == FMax(confidence_band, FInt(1))
             cap  == FAdd(FInt(max_high), FMul(step, FInt(5)))
             first == FMin(FAdd(FInt(max_high), step), cap)
             fallback == IF FLe(first, FInt(current_price))
                         THEN FMin(FAdd(FInt(current_price), step), cap)
                         ELSE first
         IN  <<EvtLevel(fallback, tail_probs[1], confidence_band, current_price)>>

\* gpd[i] says where in its bounds the projection for tail_probs[i] lies.
compute_evt_resistances(bars, tail_probs, threshold_quantile, confidence_band, current_price, gpd) ==
    IF Len(bars) < MinEvtBars \/ tail_probs = <<>> THEN <<>>
    ELSE LET highs == StableSort([i \in 1..Len(bars) |-> bars[i].high], IntBefore)
             n     == Len(highs)
             threshold_idx == Max(0, Min((n * threshold_quantile.n) \div threshold_quantile.d,
                                         n - 1))
             threshold   == highs[threshold_idx + 1]
             max_high    == highs[n]
             exceedances == SelectAbove(highs, threshold)
             nu          == Len(exceedances)
         IN  IF nu < MinExceedances THEN <<>>
             ELSE LET levels == ProjectedLevels(tail_probs, gpd, 1, threshold, max_high,
                                                Frac(nu, n), GpdFit(exceedances),
                                                confidence_band, current_price)
                  IN  StableSort(FallbackLevel(levels, tail_probs, max_high, confidence_band,
                                               current_price),
                                 ConfidenceBefore)

\* The exceedance threshold and the maximum high compute_evt_resistances uses.
EvtThreshold(bars, threshold_quantile) ==
    LET highs == StableSort([i \in 1..Len(bars) |-> bars[i].high], IntBefore)
        n     == Len(highs)
    IN  highs[Max(0, Min((n * threshold_quantile.n) \div threshold_quantile.d, n - 1)) + 1]

EvtMaxHigh(bars) == MaxOf([i \in 1..Len(bars) |-> bars[i].high], bars[1].high)

-----------------------------------------------------------------------------
(* main.rs, run_single_analysis: the adaptive parameter search (408-470) *)

\* A configuration carries atr_multiplier in tenths and min_swing_distance in
\* whole price units; the scales are in thousandths and in hundredths, so a
\* candidate multiplier counts 1/MultDen and a candidate distance 1/DistDen.
multiplier_scales == <<1000, 850, 700, 550, 400, 300, 250, 200, 150, 100, 80, 50, 30, 20, 15>>

distance_scales == <<100, 75, 50, 35, 25, 15, 10>>

\* The 8 of dbscan_min_points.max(8).
MinTargetSwings == 8

min_required_swings(config) == Max(config.dbscan_min_points, MinTargetSwings)

\* The candidate distance without its floor.
CandidateDistanceUnfloored(config, di) == config.min_swing_distance * distance_scales[di]

\* (config.min_swing_distance * distance_scale).max(2.0)
candidate_distance(config, di) ==
    Max(config.min_swing_distance * distance_scales[di], 2 * DistDen)

\* (config.atr_multiplier * mult_scale).max(0.01)
candidate_multiplier(config, mi) ==
    Max(config.atr_multiplier * multiplier_scales[mi], MultDen \div 100)

\* The locals of the search before the loops (425-432).
SearchStart(config) ==
    [ di                  |-> 1,
      mi                  |-> 1,
      looping             |-> TRUE,
      swings              |-> <<>>,
      atr_multiplier_used |-> config.atr_multiplier * 1000,
      min_distance_used   |-> config.min_swing_distance * 100,
      satisfied           |-> FALSE,
      best_swings         |-> <<>>,
      best_multiplier     |-> config.atr_multiplier * 1000,
      best_distance       |-> config.min_swing_distance * 100 ]

\* The loops nested the other way round: multiplier scale outside.
SearchAdvanceSwapped(f) ==
    IF f.di < Len(distance_scales) THEN [f EXCEPT !.di = f.di + 1]
    ELSE IF f.mi < Len(multiplier_scales) THEN [f EXCEPT !.mi = f.mi + 1, !.di = 1]
    ELSE [f EXCEPT !.looping = FALSE]

\* The next (distance scale, multiplier scale): multiplier scale inside.
SearchAdvance(f) ==
    IF f.mi < Len(multiplier_scales) THEN [f EXCEPT !.mi = f.mi + 1]
    ELSE IF f.di < Len(distance_scales) THEN [f EXCEPT !.di = f.di + 1, !.mi = 1]
    ELSE [f EXCEPT !.looping = FALSE]

\* One pass of the inner loop body (435-454).
SearchStep(f, bars, atr, config) ==
    LET cd == candidate_distance(config, f.di)
        cm == candidate_multiplier(config, f.mi)
        candidate_swings == detect_swings(bars, atr, cm, cd)
    IN  IF Len(candidate_swings) >= min_required_swings(config)
        THEN [f EXCEPT !.swings = candidate_swings,
                       !.atr_multiplier_used = cm,
                       !.min_distance_used = cd,
                       !.satisfied = TRUE,
                       !.looping = FALSE]
        ELSE IF Len(candidate_swings) > Len(f.best_swings)
             THEN SearchAdvance([f EXCEPT !.best_swings = candidate_swings,
                                          !.best_multiplier = cm,
                                          !.best_distance = cd])
             ELSE SearchAdvance(f)

\* The fallback left out: the swings stay as the loops left them.
SearchNoFallback(f) == f

\* if !satisfied { swings = best_swings; ... } (457-461)
SearchFallback(f) ==
    IF ~f.satisfied
    THEN [f EXCEPT !.swings = f.best_swings,
                   !.atr_multiplier_used = f.best_multiplier,
                   !.min_distance_used = f.best_distance]
    ELSE f

\* swings.len() < config.dbscan_min_points: the bail of 463-468.
InsufficientSwings(f, config) == Len(f.swings) < config.dbscan_min_points

NumCombos == Len(distance_scales) * Len(multiplier_scales)

\* The k-th combination with the distance scale outside, the multiplier scale
\* inside: <<index into distance_scales, index into multiplier_scales>>.
Combo(k) ==
    <<((k - 1) \div Len(multiplier_scales)) + 1, ((k - 1) % Len(multiplier_scales)) + 1>>

\* The loops over the combinations lo..hi, entered with no best candidate:
\* [satisfied, k, swings], k the combination the swings are of (0: none).
\* The first half runs before the second, which is not run when the first
\* breaks out; best_swings is replaced only by a strictly longer candidate.
RECURSIVE SearchRange(_, _, _, _, _)
SearchRange(lo, hi, bars, atr, config) ==
    IF lo = hi
    THEN LET candidate_swings ==
                 detect_swings(bars, atr, candidate_multiplier(config, Combo(lo)[2]),
                               candidate_distance(config, Combo(lo)[1]))
         IN  IF Len(candidate_swings) >= min_required_swings(config)
             THEN [satisfied |-> TRUE, k |-> lo, swings |-> candidate_swings]
             ELSE IF Len(candidate_swings) > 0
             THEN [satisfied |-> FALSE, k |-> lo, swings |-> candidate_swings]
             ELSE [satisfied |-> FALSE, k |-> 0, swings |-> <<>>]
    ELSE LET first == SearchRange(lo, (lo + hi) \div 2, bars, atr, config) IN
         IF first.satisfied THEN first
         ELSE LET second == SearchRange((lo + hi) \div 2 + 1, hi, bars, atr, config) IN
              IF second.satisfied \/ Len(second.swings) > Len(first.swings) THEN second
              ELSE first

\* The whole search as a function: swings, atr_multiplier_used,
\* min_distance_used and satisfied after lines 425-461.
adaptive_search(bars, atr, config) ==
    LET r == SearchRange(1, NumCombos, bars, atr, config) IN
    [ satisfied           |-> r.satisfied,
      swings              |-> r.swings,
      atr_multiplier_used |-> IF r.k = 0 THEN SearchStart(config).best_multiplier
                              ELSE candidate_multiplier(config, Combo(r.k)[2]),
      min_distance_used   |-> IF r.k = 0 THEN SearchStart(config).best_distance
                              ELSE candidate_distance(config, Combo(r.k)[1]) ]

-----------------------------------------------------------------------------
(* main.rs: the rest of run_single_analysis, and the helpers of run *)

\* apply_recency_weighting: each swing's bar volume becomes
\*   max(volume, 1) * max(0.5^(age_days / half_life_days), 1e-4),
\* kept as the three numbers that determine it (the power is not computed;
\* the weight only enters the kernel sums that kde stands for).
apply_recency_weighting(swings, reference, half_life_days) ==
    [i \in 1..Len(swings) |->
        [swings[i] EXCEPT !.bar.volume =
            [ base      |-> Max(swings[i].bar.volume, 1),
              age_days  |-> Max(reference - swings[i].bar.timestamp, 0),
              half_life |-> half_life_days ]]]

Err(msg) == [ok |-> FALSE, error |-> msg]

\* run_single_analysis is written as a chain of stages, each handing what it
\* computed to the next.

\* Lines 521-554: the peaks check, the levels, their evaluation, the result.
LevelStage(bars, config, atr, mean_atr, swing_count, density, peaks) ==
    IF peaks = <<>>
    THEN Err("no significant density peaks detected")
    ELSE [ ok          |-> TRUE,
           atr         |-> atr,
           mean_atr    |-> mean_atr,
           density     |-> density,
           levels      |-> evaluate_levels(
                               build_levels(peaks, density.max_density, bars[Len(bars)].close,
                                            mean_atr, config.confidence_band_atr,
                                            config.max_levels + config.ev_max_levels),
                               bars, atr, config.reaction_lookahead, config.reaction_move_atr),
           swing_count |-> swing_count ]

\* Lines 516-524: the density check and the peaks.
PeakStage(bars, config, atr, mean_atr, swing_count, density) ==
    IF density.grid = <<>>
    THEN Err("density estimation failed; not enough clustered swing data")
    ELSE LevelStage(bars, config, atr, mean_atr, swing_count, density, detect_peaks(density))

\* The inliers passed on whether or not there are any.
InliersOnly(swings, inliers) == inliers

\* clustered_swings (lines 494-498)
clustered_swings(swings, inliers) == IF inliers # <<>> THEN inliers ELSE swings

\* Lines 500-519: the swings the density is estimated from, and the density.
DensityStage(bars, config, half_life_days, kde, atr, mean_atr, swings, inliers) ==
    PeakStage(bars, config, atr, mean_atr, Len(swings),
              compute_density_curve(
                  apply_recency_weighting(clustered_swings(swings, inliers),
                                          bars[Len(bars)].timestamp, half_life_days),
                  config.kde_points, kde))

\* epsilon (485-490)
ClusterEpsilon(base_eps, mean_atr, min_distance_used, config) ==
    IF base_eps.n > 0 THEN FMul(base_eps, config.dbscan_eps_factor)
    ELSE FMax(FMax(mean_atr, Frac(min_distance_used, DistDen)), FInt(1))

\* Lines 463-498: the swing-count check and the clustering.
ClusterStage(bars, config, half_life_days, kde, atr, mean_atr, f) ==
    IF InsufficientSwings(f, config)
    THEN Err("insufficient swing points even after relaxing sensitivity")
    ELSE DensityStage(bars, config, half_life_days, kde, atr, mean_atr, f.swings,
                      cluster_swings(f.swings,
                                     ClusterEpsilon(auto_dbscan_epsilon(f.swings), mean_atr,
                                                    f.min_distance_used, config),
                                     config.dbscan_min_points).inliers)

\* Lines 412-461: the ATR, its mean, the search.
SearchStage(bars, config, half_life_days, kde, atr) ==
    ClusterStage(bars, config, half_life_days, kde, atr, MeanAtr(atr),
                 adaptive_search(bars, atr, config))

\* run_single_analysis; kde stands for the kernel sums of the density step.
run_single_analysis(bars, config, half_life_days, kde) ==
    IF Len(bars) < config.dbscan_min_points
    THEN Err("analysis window requires more bars to compute swings")
    ELSE SearchStage(bars, config, half_life_days, kde, compute_atr(bars, config.atr_period))

candidate_lookbacks(requested) ==
    IF requested = 0 THEN <<0, 90, 60, 45, 30, 20, 15, 10, 5>>
    ELSE <<requested>> \o SelectSeq(<<60, 45, 30, 20, 15, 10, 5, 0>>,
                                    LAMBDA alt : alt # requested)

\* Timestamps count days.
filter_by_lookback(bars, lookback_days) ==
    IF bars = <<>> \/ lookback_days = 0 THEN bars
    ELSE LET cutoff == bars[Len(bars)].timestamp - lookback_days
         IN  SelectSeq(bars, LAMBDA bar : bar.timestamp >= cutoff)

\* Probabilities as fractions: 0.8, 0.9999, 0.0025.
RECURSIVE TailProbsFrom(_, _)
TailProbsFrom(current, left) ==
    IF left = 0 THEN <<>>
    ELSE LET capped == FMin(current, Frac(9999, 10000))
         IN  <<capped>> \o TailProbsFrom(IF FLe(Frac(9999, 10000), capped)
                                         THEN Frac(9999, 10000)
                                         ELSE FAdd(current, Frac(25, 10000)),
                                         left - 1)

build_evt_tail_probs(start, max_levels) ==
    IF max_levels = 0 THEN <<>>
    ELSE TailProbsFrom(FMax(Frac(8, 10), FMin(start, Frac(9999, 10000))), max_levels)

\* The first combined level within merge_tolerance of price, or 0.
FirstWithin(combined, price, merge_tolerance) ==
    IF \E i \in 1..Len(combined) :
           FLe(FAbs(FSub(combined[i].price, price)), merge_tolerance)
    THEN CHOOSE i \in 1..Len(combined) :
           /\ FLe(FAbs(FSub(combined[i].price, price)), merge_tolerance)
           /\ \A j \in 1..(i - 1) :
                 ~FLe(FAbs(FSub(combined[j].price, price)), merge_tolerance)
    ELSE 0

\* The secondary level appended whatever lies near it.
AppendOne(combined, secondary_level, secondary_weight, merge_tolerance) ==
    Append(combined, [secondary_level EXCEPT
                         !.confidence = FMul(secondary_level.confidence, secondary_weight),
                         !.performance = EmptyPerformance])

\* One secondary level folded into or appended to combined (358-380).
CombineOne(combined, secondary_level, secondary_weight, merge_tolerance) ==
    LET level == [secondary_level EXCEPT
                     !.confidence = FMul(secondary_level.confidence, secondary_weight),
                     !.performance = EmptyPerformance]
        i == FirstWithin(combined, level.price, merge_tolerance)
    IN  IF i = 0 THEN Append(combined, level)
        ELSE LET existing   == combined[i]
                 total_conf == FAdd(existing.confidence, level.confidence)
             IN  IF total_conf.n > 0
                 THEN [combined EXCEPT ![i] =
                         [existing EXCEPT
                            !.price = FDiv(FAdd(FMul(existing.price, existing.confidence),
                                                FMul(level.price, level.confidence)),
                                           total_conf),
                            !.confidence = total_conf,
                            !.confidence_band =
                                FMul(FAdd(existing.confidence_band, level.confidence_band),
                                     Frac(1, 2))]]
                 ELSE combined

RECURSIVE CombineFrom(_, _, _, _, _)
CombineFrom(combined, secondary, i, secondary_weight, merge_tolerance) ==
    IF i > Len(secondary) THEN combined
    ELSE CombineFrom(CombineOne(combined, secondary[i], secondary_weight, merge_tolerance),
                     secondary, i + 1, secondary_weight, merge_tolerance)

combine_level_sets(primary, secondary, primary_weight, secondary_weight, merge_tolerance) ==
    LET combined == [i \in 1..Len(primary) |->
                        [primary[i] EXCEPT
                            !.confidence = FMul(primary[i].confidence, primary_weight),
                            !.performance = EmptyPerformance]]
    IN  StableSort(CombineFrom(combined, secondary, 1, secondary_weight, merge_tolerance),
                   ConfidenceBefore)

-----------------------------------------------------------------------------
(* The adaptive search, one combination per step *)

\* Bars of the search: a zig-zag of NumZigBars bars between 0 and an amplitude,
\* a1 for the first k bars and a2 after them; w is the height of each bar.
NumZigBars == 10

ZigZag(n, a1, a2, k, w, gap) ==
    [i \in 1..n |->
        LET p == IF i % 2 = 1 THEN 0 ELSE IF i <= k THEN a1 ELSE a2
        IN  Bar(i * gap, p + w, p, p, 1)]

ZigAmplitudes == {1, 2, 3, 4}

ZigSplits == {0, 4}

ZigHeights == {0, 1}

\* Configurations with both parameters at or above their floors of 0.01 and
\* 2.0, and configurations with one or both below: the command line takes
\* any number for either.
SearchConfigs ==
    [ atr_period         : {2, 14},
      atr_multiplier     : {3, 10, 20},
      min_swing_distance : {2, 4},
      dbscan_min_points  : {3, 9, 11} ]
    \cup
    { [ atr_period |-> p, atr_multiplier |-> c[1], min_swing_distance |-> c[2],
        dbscan_min_points |-> m ] :
        p \in {2, 14}, c \in {<<0, 1>>, <<0, 4>>, <<10, 1>>}, m \in {3, 9, 11} }

SearchInit ==
    /\ IdleSwings /\ IdleEvt /\ IdleRun /\ IdleCall
    /\ \E a1 \in ZigAmplitudes, a2 \in ZigAmplitudes, k \in ZigSplits, w \in ZigHeights,
          config \in SearchConfigs :
        search = [ pc        |-> "enter",
                   bars      |-> ZigZag(NumZigBars, a1, a2, k, w, 1),
                   config    |-> config,
                   atr       |-> <<>>,
                   f         |-> SearchStart(config),
                   evaluated |-> <<>>,
                   tried     |-> <<>>,
                   error     |-> "" ]

\* Lines 408-432: the bar-count check, the ATR, the locals of the search.
SearchEnter ==
    /\ search.pc = "enter"
    /\ search' = IF Len(search.bars) < search.config.dbscan_min_points
                 THEN [search EXCEPT !.pc = "failed",
                                     !.error = "analysis window requires more bars"]
                 ELSE [search EXCEPT !.pc = "search",
                                     !.atr = compute_atr(search.bars, search.config.atr_period)]
    /\ UNCHANGED notSearch

\* One combination is tried; evaluated records which, tried the distance
\* and the multiplier detect_swings was called with.
TryCombination ==
    /\ search.pc = "search"
    /\ search.f.looping
    /\ search' = [search EXCEPT
                     !.f = SearchStep(search.f, search.bars, search.atr, search.config),
                     !.evaluated = Append(search.evaluated, <<search.f.di, search.f.mi>>),
                     !.tried = Append(search.tried,
                                      [ distance   |-> candidate_distance(search.config, search.f.di),
                                        multiplier |-> candidate_multiplier(search.config, search.f.mi) ])]
    /\ UNCHANGED notSearch

\* Lines 457-470: the fallback and the swing-count check.
SearchExit ==
    /\ search.pc = "search"
    /\ ~search.f.looping
    /\ LET f == SearchFallback(search.f) IN
       search' = IF InsufficientSwings(f, search.config)
                 THEN [search EXCEPT !.f = f, !.pc = "failed",
                                     !.error = "insufficient swing points"]
                 ELSE [search EXCEPT !.f = f, !.pc = "swings_ok"]
    /\ UNCHANGED notSearch

SearchNext == SearchEnter \/ TryCombination \/ SearchExit

SpecSearch == SearchInit /\ [][SearchNext]_vars

\* The steps compute what the function computes.
SearchAgreesWithFunction ==
    search.pc \in {"swings_ok", "failed"} /\ search.atr # <<>> =>
        LET f == adaptive_search(search.bars, search.atr, search.config) IN
        /\ f.satisfied = search.f.satisfied
        /\ f.swings = search.f.swings
        /\ f.atr_multiplier_used = search.f.atr_multiplier_used
        /\ f.min_distance_used = search.f.min_distance_used

-----------------------------------------------------------------------------
(* compute_evt_resistances, one tail probability per step *)

NumEvtBars == 50

EvtBase == 10

\* The highs above the base: the first k at e1, the rest at e2.
EvtTails ==
    { [i \in 1..len |-> EvtBase + (IF i <= k THEN 1 ELSE e2)] :
        len \in {MinExceedances - 1, MinExceedances + 1},
        k \in {0, MinExceedances},
        e2 \in {1, 7} }

\* n daily bars: highs at the base, then the tail.
EvtBars(n, tail) ==
    [i \in 1..n |->
        LET h == IF i <= n - Len(tail) THEN EvtBase ELSE tail[i - (n - Len(tail))]
        IN  Bar(i, h, h - 1, h, 1)]

EvtTailProbs ==
    { <<>>, <<Frac(9, 10)>>, <<Frac(99, 100)>>, <<Frac(9, 10), Frac(99, 100)>>,
      <<Frac(1, 2)>>, <<FInt(1)>>, <<Frac(99, 100), Frac(1, 2)>> }

\* The arguments of the calls of compute_evt_resistances.
EvtInputs ==
    { [ bars               |-> EvtBars(n, tail),
        tail_probs         |-> tail_probs,
        threshold_quantile |-> threshold_quantile,
        confidence_band    |-> confidence_band,
        current_price      |-> current_price ] :
        n \in {NumEvtBars - 1, NumEvtBars}, tail \in EvtTails,
        tail_probs \in EvtTailProbs,
        threshold_quantile \in {Frac(4, 5), Frac(9, 10)},
        confidence_band \in {FInt(0), FInt(2)},
        current_price \in {EvtBase, EvtBase + 200} }

EvtInit ==
    /\ IdleSwings /\ IdleSearch /\ IdleRun /\ IdleCall
    /\ \E in \in EvtInputs :
        evt = [ pc                 |-> "enter",
                bars               |-> in.bars,
                tail_probs         |-> in.tail_probs,
                threshold_quantile |-> in.threshold_quantile,
                confidence_band    |-> in.confidence_band,
                current_price      |-> in.current_price,
                threshold          |-> 0,
                max_high           |-> 0,
                nu                 |-> 0,
                fit                |-> [shape |-> FInt(0), scale |-> FInt(0)],
                i                  |-> 1,
                gpd                |-> <<>>,
                levels             |-> <<>>,
                result             |-> <<>> ]

\* Lines 13-65: the early returns, the threshold, the fit.
EvtEnter ==
    /\ evt.pc = "enter"
    /\ evt' =
         IF Len(evt.bars) < MinEvtBars \/ evt.tail_probs = <<>>
         THEN [evt EXCEPT !.pc = "done"]
         ELSE LET threshold   == EvtThreshold(evt.bars, evt.threshold_quantile)
                  exceedances ==
                      SelectAbove(StableSort([i \in 1..Len(evt.bars) |-> evt.bars[i].high],
                                             IntBefore), threshold)
              IN  IF Len(exceedances) < MinExceedances
                  THEN [evt EXCEPT !.pc = "done", !.threshold = threshold,
                                   !.max_high = EvtMaxHigh(evt.bars),
                                   !.nu = Len(exceedances)]
                  ELSE [evt EXCEPT !.pc = "loop", !.threshold = threshold,
                                   !.max_high = EvtMaxHigh(evt.bars),
                                   !.nu = Len(exceedances),
                                   !.fit = GpdFit(exceedances)]
    /\ UNCHANGED notEvt

\* One iteration of the loop over tail_probs (68-101).
EvtProject ==
    /\ evt.pc = "loop"
    /\ evt.i <= Len(evt.tail_probs)
    /\ \E where \in {"lower", "mid", "upper"} :
         evt' = [evt EXCEPT
                    !.levels = evt.levels \o
                        ProjectedLevel(evt.tail_probs[evt.i], where, evt.threshold,
                                       evt.max_high, Frac(evt.nu, Len(evt.bars)), evt.fit,
                                       evt.confidence_band, evt.current_price),
                    !.gpd = Append(evt.gpd, where),
                    !.i = evt.i + 1]
    /\ UNCHANGED notEvt

\* Lines 103-132: the fallback, the sort, the return.
EvtReturn ==
    /\ evt.pc = "loop"
    /\ evt.i > Len(evt.tail_probs)
    /\ evt' = [evt EXCEPT
                  !.pc = "done",
                  !.result = StableSort(FallbackLevel(evt.levels, evt.tail_probs, evt.max_high,
                                                      evt.confidence_band, evt.current_price),
                                        ConfidenceBefore)]
    /\ UNCHANGED notEvt

EvtNext == EvtEnter \/ EvtProject \/ EvtReturn

SpecEvt == EvtInit /\ [][EvtNext]_vars

\* The steps compute what the function computes.
EvtAgreesWithFunction ==
    evt.pc = "done" =>
        evt.result = compute_evt_resistances(evt.bars, evt.tail_probs, evt.threshold_quantile,
                                             evt.confidence_band, evt.current_price,
                                             evt.gpd \o <<"mid", "mid">>)

-----------------------------------------------------------------------------
(* C1 *)

StrictlyIncreasingIndices(swings) ==
    \A i \in 1..(Len(swings) - 1) : swings[i].index < swings[i + 1].index

\* C1: the swings returned by detect_swings have strictly increasing bar
\* indices, so no two consecutive returned swings share (index, type).
C1_SwingIndicesIncrease ==
    swing_scan.pc = "done" =>
        /\ StrictlyIncreasingIndices(swing_scan.result)
        /\ \A i \in 1..(Len(swing_scan.result) - 1) :
              ~(/\ swing_scan.result[i].index = swing_scan.result[i + 1].index
                /\ swing_scan.result[i].swing_type = swing_scan.result[i + 1].swing_type)

\* A scan that returned at least three swings (Low, High, Low).
C1_Witness ==
    /\ swing_scan.pc = "done"
    /\ Len(swing_scan.result) >= 3

-----------------------------------------------------------------------------
(* C2, C3 *)

\* What detect_swings returns for the k-th combination on the search's input.
ComboSwings(k) ==
    detect_swings(search.bars, search.atr,
                  candidate_multiplier(search.config, Combo(k)[2]),
                  candidate_distance(search.config, Combo(k)[1]))

Descending(scales) == \A i \in 1..(Len(scales) - 1) : scales[i] > scales[i + 1]

SearchOver == search.pc \in {"search", "swings_ok", "failed"} /\ ~search.f.looping

\* C2: the adaptive search tries the combinations with the distance scale as
\* the outer and the multiplier scale as the inner loop, both descending, and
\* uses the swings of the first combination in that order whose swing count is
\* at least max(dbscan_min_points, 8); no later combination is evaluated.
C2_FirstQualifyingCombination ==
    /\ Descending(distance_scales) /\ Descending(multiplier_scales)
    /\ search.pc \in {"search", "swings_ok", "failed"} =>
          \A j \in 1..Len(search.evaluated) : search.evaluated[j] = Combo(j)
    /\ (SearchOver /\ search.f.satisfied) =>
          LET k == Len(search.evaluated) IN
          /\ k >= 1
          /\ \A j \in 1..(k - 1) : Len(ComboSwings(j)) < min_required_swings(search.config)
          /\ Len(ComboSwings(k)) >= min_required_swings(search.config)
          /\ search.f.swings = ComboSwings(k)
          /\ search.f.atr_multiplier_used = candidate_multiplier(search.config, Combo(k)[2])
          /\ search.f.min_distance_used = candidate_distance(search.config, Combo(k)[1])

\* A search accepted a combination after relaxing both scales.
C2_Witness ==
    /\ search.pc = "swings_ok"
    /\ search.f.satisfied
    /\ Len(search.evaluated) > Len(multiplier_scales)
    /\ search.evaluated[Len(search.evaluated)][2] > 1

MaxComboCount ==
    CHOOSE m \in 0..Len(search.bars) :
        /\ \E k \in 1..NumCombos : Len(ComboSwings(k)) = m
        /\ \A k \in 1..NumCombos : Len(ComboSwings(k)) <= m

C3_WitnessFailed ==
    /\ search.pc = "failed"
    /\ search.error = "insufficient swing points"
    /\ Len(search.f.swings) > 1

-----------------------------------------------------------------------------
(* main.rs: run, from the lookback search to the report *)

\* base_half_life (line 59)
base_half_life(config) == IF config.strong_recency THEN 15 ELSE 30

\* target_swings (line 60)
target_swings(config) == Max(config.dbscan_min_points, MinTargetSwings)

\* The window loop goes on to the next window.
WindowDoneAtLast(result, config, idx, windows) == idx = Len(windows) - 1

\* done (line 98); idx is 0-based.
WindowDone(result, config, idx, windows) ==
    result.swing_count >= target_swings(config) \/ idx = Len(windows) - 1

\* merge_tolerance (130-134)
merge_tolerance(recent_result, historical_result, config) ==
    FMax(FMax(FMax(recent_result.mean_atr, historical_result.mean_atr),
              FInt(config.min_swing_distance)), FInt(2))

\* max_slots (149, 253)
max_slots(config) == config.max_levels + config.ev_max_levels

\* Lines 144-152: distance_from_last re-measured, then the truncation.
Remeasured(combined, current_price, config) ==
    Truncate([i \in 1..Len(combined) |->
                 [combined[i] EXCEPT !.distance_from_last =
                     FAbs(FSub(combined[i].price, FInt(current_price)))]],
             max_slots(config))

\* Lines 136-160: the combined, re-measured, truncated and evaluated levels.
RegimeLevels(bars, config, recent_result, historical_result) ==
    evaluate_levels(
        Remeasured(combine_level_sets(recent_result.levels, historical_result.levels,
                                      Frac(7, 10), Frac(3, 10),
                                      merge_tolerance(recent_result, historical_result, config)),
                   bars[Len(bars)].close, config),
        bars, historical_result.atr, config.reaction_lookahead, config.reaction_move_atr)

\* base_band (171-174, 223-226)
EvtBand(recent_result, config, current_price) ==
    LET base_band == FMul(recent_result.mean_atr, config.confidence_band_atr)
    IN  IF base_band.n <= 0 THEN FMax(Frac(Abs(current_price), 1000), FInt(1))
        ELSE base_band

\* Lines 163-194 and 215-246: what the EVT step appends to the levels.
EvtLevels(analysis_bars, config, recent_result, current_price, gpd) ==
    IF ~config.evt_resistance THEN <<>>
    ELSE LET evt_source == IF config.ev_lookback_days > 0
                           THEN filter_by_lookback(analysis_bars, config.ev_lookback_days)
                           ELSE analysis_bars
             tail_probs == build_evt_tail_probs(config.ev_tail_probability,
                                                config.ev_max_levels)
         IN  IF tail_probs = <<>> THEN <<>>
             ELSE compute_evt_resistances(evt_source, tail_probs, config.ev_threshold_quantile,
                                          EvtBand(recent_result, config, current_price),
                                          current_price, gpd)

\* Lines 196-203 and 248-256: sort by confidence, truncate to max_slots.
RankedLevels(levels, config) ==
    Truncate(StableSort(levels, ConfidenceBefore), max_slots(config))

\* Bars of a run, two days apart: a zig-zag of amplitude a1 that ends with
\* TailBars bars of amplitude a2.  The short series have NumRunBars bars; the
\* long ones have NumEvtRunBars, enough for the EVT step.
NumRunBars == 12

NumEvtRunBars == 50

TailBars == 10

RunAmplitudes == {1, 4}

\* <<a1, a2>> of the long series.
LongRunAmplitudes == { <<1, 2>>, <<2, 2>>, <<2, 4>> }

RunBars ==
    { ZigZag(NumRunBars, a1, a2, NumRunBars - TailBars, w, 2) :
        a1 \in RunAmplitudes, a2 \in RunAmplitudes, w \in ZigHeights }
    \cup { ZigZag(NumEvtRunBars, a[1], a[2], NumEvtRunBars - TailBars, 1, 2) :
              a \in LongRunAmplitudes }

RunConfigs ==
    [ atr_period            : {1},
      atr_multiplier        : {3},
      min_swing_distance    : {2},
      dbscan_min_points     : {3},
      dbscan_eps_factor     : {FInt(1)},
      kde_points            : {5},
      confidence_band_atr   : {FInt(1)},
      max_levels            : {1, 3},
      ev_max_levels         : {2},
      reaction_lookahead    : {2},
      reaction_move_atr     : {Frac(1, 2)},
      lookback_days         : {0, 11},
      regime_aware          : BOOLEAN,
      evt_resistance        : BOOLEAN,
      ev_lookback_days      : {0},
      ev_tail_probability   : {Frac(99, 100)},
      ev_threshold_quantile : {Frac(4, 5)},
      strong_recency        : {FALSE} ]

\* What the kernel sums may come to on a grid of grid_points points.
KdeProfiles(grid_points) ==
    IF grid_points = 5
    THEN { <<0, 2, 0, 0, 0>>, <<0, 2, 0, 2, 0>>, <<0, 1, 0, 2, 0>> }
    ELSE { [i \in 1..grid_points |-> 0] }

GpdWhere == {"lower", "mid", "upper"}

RunInit ==
    /\ IdleSwings /\ IdleSearch /\ IdleEvt /\ IdleCall
    /\ \E bars \in RunBars, config \in RunConfigs :
        run = [ pc                |-> "windows",
                bars              |-> bars,
                config            |-> config,
                candidate_windows |-> candidate_lookbacks(config.lookback_days),
                idx               |-> 0,
                analysed          |-> <<>>,
                analysis_bars     |-> <<>>,
                recent_result     |-> [ok |-> FALSE],
                historical_result |-> [ok |-> FALSE],
                final_levels      |-> <<>>,
                evt_levels        |-> <<>>,
                reported          |-> <<>>,
                error             |-> "",
                failed_at         |-> "" ]

\* Lines 95-102: the frame after the analysis of a window gave result.
AfterWindow(r, window, candidate, result) ==
    IF ~result.ok
    THEN [r EXCEPT !.pc = "failed", !.error = result.error, !.failed_at = "window"]
    ELSE [r EXCEPT
            !.analysis_bars = candidate,
            !.recent_result = result,
            !.analysed = Append(r.analysed,
                                [window |-> window, swing_count |-> result.swing_count]),
            !.idx = IF WindowDone(result, r.config, r.idx, r.candidate_windows)
                    THEN r.idx ELSE r.idx + 1,
            !.pc  = IF WindowDone(result, r.config, r.idx, r.candidate_windows)
                    THEN "aggregate" ELSE "windows"]

\* The window's bars analysed under one outcome of the kernel sums.
AnalyseCandidate(r, window, candidate) ==
    \E kde \in KdeProfiles(r.config.kde_points) :
        run' = AfterWindow(r, window, candidate,
                           run_single_analysis(candidate, r.config, base_half_life(r.config),
                                               kde))

\* One pass of the window loop (66-103).  analysed records, for each window
\* analysed, the window and the swing count of its result.
AnalyseWindow ==
    /\ run.pc = "windows"
    /\ run.idx < Len(run.candidate_windows)
    /\ IF filter_by_lookback(run.bars, run.candidate_windows[run.idx + 1]) = <<>>
       THEN run' = [run EXCEPT !.idx = run.idx + 1]
       ELSE AnalyseCandidate(run, run.candidate_windows[run.idx + 1],
                             filter_by_lookback(run.bars, run.candidate_windows[run.idx + 1]))
    /\ UNCHANGED notRun

\* Lines 128-162: the frame after the analysis of the full history.
AfterHistorical(r, historical_result) ==
    IF ~historical_result.ok
    THEN [r EXCEPT !.pc = "failed", !.error = historical_result.error,
                   !.failed_at = "historical"]
    ELSE [r EXCEPT
            !.pc = "evt",
            !.historical_result = historical_result,
            !.final_levels = RegimeLevels(r.bars, r.config, r.recent_result,
                                          historical_result)]

\* The regime-aware path up to the evaluation (120-162).
AggregateRegimes ==
    /\ run.pc = "aggregate"
    /\ run.config.regime_aware
    /\ \E kde \in KdeProfiles(run.config.kde_points) :
         run' = AfterHistorical(run, run_single_analysis(run.bars, run.config,
                                                         base_half_life(run.config) * 2, kde))
    /\ UNCHANGED notRun

\* The other path: the levels of the recent result (214).
TakeRecentLevels ==
    /\ run.pc = "aggregate"
    /\ ~run.config.regime_aware
    /\ run' = [run EXCEPT !.pc = "evt", !.final_levels = run.recent_result.levels]
    /\ UNCHANGED notRun

\* Lines 196-206 and 248-258: the EVT levels appended, the sort, the
\* truncation, print_report.
Reported(r, evt_levels) ==
    [r EXCEPT !.pc = "report",
              !.evt_levels = evt_levels,
              !.final_levels = RankedLevels(r.final_levels \o evt_levels, r.config),
              !.reported = RankedLevels(r.final_levels \o evt_levels, r.config)]

\* Both paths from the EVT step to print_report (163-206, 215-258).
ExtendAndReport ==
    /\ run.pc = "evt"
    /\ \E gpd \in [1..run.config.ev_max_levels -> GpdWhere] :
         run' = Reported(run, EvtLevels(run.analysis_bars, run.config, run.recent_result,
                                        IF run.config.regime_aware
                                        THEN run.bars[Len(run.bars)].close
                                        ELSE run.analysis_bars[Len(run.analysis_bars)].close,
                                        gpd))
    /\ UNCHANGED notRun

Next == AnalyseWindow \/ AggregateRegimes \/ TakeRecentLevels \/ ExtendAndReport

Spec == RunInit /\ [][Next]_vars

-----------------------------------------------------------------------------
(* The adaptive search: the values the combinations use; C25 *)

\* The configured base values and the floors in the units of the candidates.
BaseDistance == search.config.min_swing_distance * DistDen

BaseMultiplier == search.config.atr_multiplier * (MultDen \div 10)

DistanceFloor == 2 * DistDen

MultiplierFloor == MultDen \div 100

Searching == search.pc \in {"search", "swings_ok", "failed"}

\* C25, as stated: the first combination tried uses the configured
\* min_swing_distance and atr_multiplier unchanged, both scales being 1.0,
\* and no combination uses a minimum distance or a multiplier larger than
\* the configured base value.
C25_NeverAboveConfigured ==
    Searching =>
        /\ distance_scales[1] = DistDen /\ multiplier_scales[1] = MultDen \div 10
        /\ search.tried # <<>> =>
              /\ search.tried[1].distance = BaseDistance
              /\ search.tried[1].multiplier = BaseMultiplier
        /\ \A j \in 1..Len(search.tried) :
              /\ search.tried[j].distance <= BaseDistance
              /\ search.tried[j].multiplier <= BaseMultiplier

\* C25, amended: every combination uses max(base * scale, floor), with the
\* floors 2.0 and 0.01; a parameter configured at or above its floor is
\* used unchanged by the first combination and never exceeded, a parameter
\* configured below its floor is replaced by the floor in every combination.
C25_LoweredToFloorsFromAboveOnly ==
    Searching =>
        /\ distance_scales[1] = DistDen /\ multiplier_scales[1] = MultDen \div 10
        /\ \A j \in 1..Len(search.tried) :
              LET used == search.tried[j]
                  di   == search.evaluated[j][1]
                  mi   == search.evaluated[j][2]
              IN  /\ used.distance
                        = Max(search.config.min_swing_distance * distance_scales[di], DistanceFloor)
                  /\ used.multiplier
                        = Max(search.config.atr_multiplier * multiplier_scales[mi], MultiplierFloor)
                  /\ IF BaseDistance >= DistanceFloor
                     THEN used.distance <= BaseDistance /\ search.tried[1].distance = BaseDistance
                     ELSE used.distance = DistanceFloor
                  /\ IF BaseMultiplier >= MultiplierFloor
                     THEN used.multiplier <= BaseMultiplier
                          /\ search.tried[1].multiplier = BaseMultiplier
                     ELSE used.multiplier = MultiplierFloor
        /\ (~search.f.looping /\ search.tried # <<>>) =>
              /\ search.f.min_distance_used <= Max(BaseDistance, DistanceFloor)
              /\ search.f.atr_multiplier_used <= Max(BaseMultiplier, MultiplierFloor)

\* Every combination was tried with both parameters configured above their
\* floors: the first used them unchanged, the last used both floors.
C25_Witness ==
    /\ ~search.f.looping
    /\ Len(search.tried) = NumCombos
    /\ BaseDistance > DistanceFloor /\ BaseMultiplier > MultiplierFloor
    /\ search.tried[1] = [distance |-> BaseDistance, multiplier |-> BaseMultiplier]
    /\ search.tried[NumCombos] = [distance |-> DistanceFloor, multiplier |-> MultiplierFloor]

\* A search configured with both parameters below their floors has run.
C25_WitnessBelowFloors ==
    /\ ~search.f.looping
    /\ Len(search.tried) > 1
    /\ BaseDistance < DistanceFloor /\ BaseMultiplier < MultiplierFloor

-----------------------------------------------------------------------------
(* C4 - C8 *)

\* The windows the loop has not reached when it is at window idx (0-based).
LaterWindows == (run.idx + 2)..Len(run.candidate_windows)

\* The analysis of window j of the candidate windows succeeds.
WindowSucceeds(j) ==
    \E kde \in KdeProfiles(run.config.kde_points) :
        run_single_analysis(filter_by_lookback(run.bars, run.candidate_windows[j]),
                            run.config, base_half_life(run.config), kde).ok

\* C4: when the analysis of a candidate window fails, the lookback search goes
\* on to another window: the run does not end with that window's error while
\* a later window is there whose analysis succeeds.
C4_FailedWindowIsSkipped ==
    ~ /\ run.pc = "failed"
      /\ run.failed_at = "window"
      /\ \E j \in LaterWindows : WindowSucceeds(j)

\* The windows were all analysed or the last analysed one has target_swings.
SearchSettled == run.pc \in {"aggregate", "evt", "report"}

\* C5: the windows are analysed in the order of candidate_lookbacks, every
\* window analysed before the last analysed one has fewer than
\* max(dbscan_min_points, 8) swings, and once the loop is over the last
\* analysed window has that many swings or is the last candidate; the result
\* and the bars used from then on are those of that window.
C5_FirstSatisfyingWindow ==
    LET k == Len(run.analysed)
    IN  /\ \A j \in 1..k : run.analysed[j].window = run.candidate_windows[j]
        /\ \A j \in 1..(k - 1) : run.analysed[j].swing_count < target_swings(run.config)
        /\ SearchSettled =>
              /\ k >= 1
              /\ \/ run.analysed[k].swing_count >= target_swings(run.config)
                 \/ k = Len(run.candidate_windows)
              /\ run.recent_result.ok
              /\ run.recent_result.swing_count = run.analysed[k].swing_count
              /\ run.analysis_bars = filter_by_lookback(run.bars, run.analysed[k].window)
        /\ run.pc = "aggregate" =>
              \E kde \in KdeProfiles(run.config.kde_points) :
                  run.recent_result =
                      run_single_analysis(run.analysis_bars, run.config,
                                          base_half_life(run.config), kde)

\* The search passed over a window with too few swings and stopped at a later
\* one with enough, before the last candidate.
C5_Witness ==
    /\ run.pc = "report"
    /\ Len(run.analysed) >= 2
    /\ Len(run.analysed) < Len(run.candidate_windows)
    /\ run.recent_result.swing_count >= target_swings(run.config)

\* C6: every level of the final ranked output has a confidence in [0, 1].
C6_ConfidenceWithinUnitInterval ==
    run.pc = "report" =>
        \A i \in 1..Len(run.reported) :
            /\ FLe(FInt(0), run.reported[i].confidence)
            /\ FLe(run.reported[i].confidence, FInt(1))

\* C7: the number of levels passed to the report never exceeds max_levels.
C7_AtMostMaxLevels ==
    run.pc = "report" => Len(run.reported) <= run.config.max_levels

\* The bars and the ATR series evaluate_levels is given on the path taken.
EvaluatedBars == IF run.config.regime_aware THEN run.bars ELSE run.analysis_bars

EvaluatedAtr ==
    IF run.config.regime_aware THEN run.historical_result.atr ELSE run.recent_result.atr

\* C8: every level of the final ranked output, the EVT levels included,
\* carries the performance statistics evaluate_levels computes for it over
\* the bar series.
C8_EveryLevelBacktested ==
    run.pc = "report" =>
        \A i \in 1..Len(run.reported) :
            run.reported[i].performance =
                LevelPerformance(run.reported[i], EvaluatedBars, EvaluatedAtr,
                                 run.config.reaction_lookahead, run.config.reaction_move_atr)

-----------------------------------------------------------------------------
(* C9, C10 *)

\* compute_evt_resistances got past its early returns and is over.
EvtFitted == evt.pc = "done" /\ evt.nu >= MinExceedances

\* 5 * max(band, 1)
EvtReach == FMul(FMax(evt.confidence_band, FInt(1)), FInt(5))

\* C9: with fewer than 5 exceedances compute_evt_resistances returns the
\* empty list; when there are enough bars and exceedances and no requested
\* tail probability yields a valid projected level, it returns exactly one
\* fallback resistance level, above the maximum high and at most
\* max_high + 5 * max(band, 1), whose confidence is the first requested
\* probability clamped to [0, 1]; it has no failing outcome.
C9_FewExceedancesEmptyElseFallback ==
    /\ evt.pc \in {"enter", "loop", "done"}
    /\ (evt.pc = "done" /\ evt.nu < MinExceedances) => evt.result = <<>>
    /\ (EvtFitted /\ evt.levels = <<>>) =>
          /\ Len(evt.result) = 1
          /\ FLt(FInt(evt.max_high), evt.result[1].price)
          /\ FLe(evt.result[1].price, FAdd(FInt(evt.max_high), EvtReach))
          /\ evt.result[1].confidence = Clamp01(evt.tail_probs[1])
          /\ evt.result[1].level_type = "Resistance"
          /\ evt.result[1].performance = EmptyPerformance

\* The original statement of C9: zero levels in both cases.
C9_ZeroLevelsInBothCases ==
    (evt.pc = "done" /\ (evt.nu < MinExceedances \/ evt.levels = <<>>)) => evt.result = <<>>

\* Enough exceedances, probabilities were requested, none gave a level.
C9_Witness ==
    /\ EvtFitted
    /\ evt.gpd # <<>>
    /\ evt.levels = <<>>
    /\ evt.result # <<>>

\* C10: every level compute_evt_resistances returns has a price above the
\* exceedance threshold (the threshold_quantile quantile of the highs) and at
\* most max_high + 5 * max(band, 1); a projected level is also above the
\* current price, and the fallback level is above the maximum high.  A
\* projected level may lie at or below the maximum high.
C10_AboveThresholdWithinCap ==
    evt.pc = "done" =>
        \A i \in 1..Len(evt.result) :
            /\ FLt(FInt(evt.threshold), evt.result[i].price)
            /\ FLe(evt.result[i].price, FAdd(FInt(evt.max_high), EvtReach))
            /\ evt.levels # <<>> => FLt(FInt(evt.current_price), evt.result[i].price)
            /\ evt.levels = <<>> => FLt(FInt(evt.max_high), evt.result[i].price)

\* The original statement of C10: every returned level is above the maximum high.
C10_BeyondMaximumHigh ==
    evt.pc = "done" =>
        \A i \in 1..Len(evt.result) : FLt(FInt(evt.max_high), evt.result[i].price)

\* A projected level was returned that is inside the observed range even when
\* the projection is at the upper end of its bounds.
C10_Witness ==
    /\ EvtFitted
    /\ evt.gpd = <<"upper">>
    /\ evt.levels # <<>>
    /\ FLt(evt.result[1].price, FInt(evt.max_high))

-----------------------------------------------------------------------------
(* evaluate_levels called on its own; C11 *)

\* Bounds of the inputs of the evaluation.
MaxEvalBars == 3

EvalPrices == {0, 1, 2}

\* A bar's high is not below its low.
EvalBarShapes ==
    {Bar(0, c[1], c[2], c[2], 1) : c \in {c \in EvalPrices \X EvalPrices : c[1] >= c[2]}}

EvalLevelPrices == {FInt(1), Frac(5, 2), FInt(4)}

\* Bands as build_levels, compute_evt_resistances and combine_level_sets
\* leave them: positive.
EvalBands == {Frac(1, 4), FInt(1)}

EvalAtrSeqs == {<<>>, <<FInt(0)>>, <<FInt(2)>>}

\* The levels handed over carry the empty record, as every caller's do.
EvalLevel(price, band, level_type) ==
    Level(price, 0, FInt(1), band, level_type, EmptyPerformance, FInt(0))

EvalInit ==
    /\ IdleSwings /\ IdleSearch /\ IdleEvt /\ IdleRun
    /\ \E bars \in SeqsUpTo(EvalBarShapes, MaxEvalBars), atr \in EvalAtrSeqs,
          p1 \in EvalLevelPrices, p2 \in EvalLevelPrices \ {FInt(1)}, band \in EvalBands,
          lookahead \in {1, 2} :
        call = [ pc                 |-> "evaluate_levels",
                 levels             |-> <<EvalLevel(p1, band, "Support"),
                                          EvalLevel(p2, band, "Resistance")>>,
                 bars               |-> Stamp(bars),
                 atr                |-> atr,
                 reaction_lookahead |-> lookahead,
                 reaction_move_atr  |-> Frac(1, 2),
                 result             |-> <<>> ]

\* The call of evaluate_levels.
EvaluateLevels ==
    /\ call.pc = "evaluate_levels"
    /\ call' = [call EXCEPT
                  !.pc = "done",
                  !.result = evaluate_levels(call.levels, call.bars, call.atr,
                                             call.reaction_lookahead, call.reaction_move_atr)]
    /\ UNCHANGED notCall

EvalNext == EvaluateLevels

SpecEval == EvalInit /\ [][EvalNext]_vars

\* The band of the level and the range of the bar have a point in common.
BandMeetsBar(level, bar) ==
    FLe(FMax(FSub(level.price, level.confidence_band), FInt(bar.low)),
        FMin(FAdd(level.price, level.confidence_band), FInt(bar.high)))

BandMeetsNoBar(level, bars) == \A i \in 1..Len(bars) : ~BandMeetsBar(level, bars[i])

\* C11: after evaluate_levels every level has tests = touches and a hit_rate
\* in [0, 1], and a level whose band [price - band, price + band] meets no
\* bar's [low, high] has tests = 0 and the all-zero record.
C11_TestsTouchesHitRate ==
    call.pc = "done" =>
        /\ Len(call.result) = Len(call.levels)
        /\ \A i \in 1..Len(call.result) :
              LET perf == call.result[i].performance
              IN  /\ perf.tests = perf.touches
                  /\ FLe(FInt(0), perf.hit_rate) /\ FLe(perf.hit_rate, FInt(1))
                  /\ BandMeetsNoBar(call.levels[i], call.bars) =>
                        perf.tests = 0 /\ perf = EmptyPerformance
                  /\ perf.tests = Cardinality({j \in 1..Len(call.bars) :
                                                  BandMeetsBar(call.levels[i], call.bars[j])})

\* One level was touched and reacted, the other's band met no bar.
C11_Witness ==
    /\ call.pc = "done"
    /\ call.bars # <<>>
    /\ call.result[1].performance.tests > 0
    /\ call.result[1].performance.hit_rate.n > 0
    /\ BandMeetsNoBar(call.levels[2], call.bars)

-----------------------------------------------------------------------------
(* evaluate_levels: touches and hits; C24 *)

\* The 1-based positions of the bars that touch the level.
TouchingBars(level, bars) ==
    { j \in 1..Len(bars) :
        /\ FLe(FInt(bars[j].low), FAdd(level.price, level.confidence_band))
        /\ FLe(FSub(level.price, level.confidence_band), FInt(bars[j].high)) }

\* Some bar among the next reaction_lookahead bars after bar j moves by at
\* least needed in the level's favour.
ReactsWithin(level, bars, j, reaction_lookahead, needed) ==
    \E k \in (j + 1)..Min(j + reaction_lookahead, Len(bars)) :
        FLe(needed, IF level.level_type = "Support"
                    THEN FSub(FInt(bars[k].high), level.price)
                    ELSE FSub(level.price, FInt(bars[k].low)))

\* The ATR of the series at bar j, or the mean of the series when it has
\* no value there.
AtrAtTouch(atr, j) == IF j <= Len(atr) THEN atr[j] ELSE MeanAtr(atr)

\* The touches of level i of the call that are hits when a hit needs a
\* movement of reaction_move_atr times the ATR at the touch.
HitsByAtr(i) ==
    { j \in TouchingBars(call.levels[i], call.bars) :
        ReactsWithin(call.levels[i], call.bars, j, call.reaction_lookahead,
                     FMul(call.reaction_move_atr, AtrAtTouch(call.atr, j))) }

\* The same with the ATR at the touch floored at 1e-6.
HitsByFlooredAtr(i) ==
    { j \in TouchingBars(call.levels[i], call.bars) :
        ReactsWithin(call.levels[i], call.bars, j, call.reaction_lookahead,
                     FMul(call.reaction_move_atr,
                          FMax(AtrAtTouch(call.atr, j), Frac(1, 1000 * 1000)))) }

\* The touches are the bars that meet the band, the hits are no more than
\* the touches, the last bar is no hit, and avg_reaction_bars is at most
\* reaction_lookahead.
TouchesAndBounds(i) ==
    LET perf == call.result[i].performance
    IN  /\ perf.touches = Cardinality(TouchingBars(call.levels[i], call.bars))
        /\ FLe(perf.hit_rate, FInt(1))
        /\ TouchingBars(call.levels[i], call.bars) = {Len(call.bars)} => perf.hit_rate = FInt(0)
        /\ FLe(perf.avg_reaction_bars, FInt(call.reaction_lookahead))

\* C24, as stated: a bar is a touch exactly when bar.low <= price + band and
\* bar.high >= price - band, and a touch is a hit exactly when a bar among
\* the next reaction_lookahead bars moves favourably by at least
\* reaction_move_atr times the ATR at the touch bar; hits never exceed
\* touches, a touch on the last bar is no hit, avg_reaction_bars never
\* exceeds reaction_lookahead.
C24_HitByAtrAtTouch ==
    (call.pc = "done" /\ call.bars # <<>>) =>
        \A i \in 1..Len(call.result) :
            /\ TouchesAndBounds(i)
            /\ FMul(call.result[i].performance.hit_rate,
                    FInt(call.result[i].performance.tests))
                  = FInt(Cardinality(HitsByAtr(i)))

\* C24, amended: as stated, with the ATR at the touch bar (the mean of the
\* series where it has no value) floored at 1e-6.
C24_HitByFlooredAtrAtTouch ==
    (call.pc = "done" /\ call.bars # <<>>) =>
        \A i \in 1..Len(call.result) :
            /\ TouchesAndBounds(i)
            /\ FMul(call.result[i].performance.hit_rate,
                    FInt(call.result[i].performance.tests))
                  = FInt(Cardinality(HitsByFlooredAtr(i)))

\* The first level was touched three times, the last bar included: one
\* touch is a hit, one is not.
C24_Witness ==
    /\ call.pc = "done"
    /\ TouchingBars(call.levels[1], call.bars) = {1, 2, 3}
    /\ Cardinality(HitsByFlooredAtr(1)) = 1
    /\ call.result[1].performance.hit_rate = Frac(1, 3)

-----------------------------------------------------------------------------
(* cluster_swings called on its own; C12, C13 *)

\* Bounds of the inputs of the clustering.
MaxClusterSwings == 5

ClusterPrices == {0, 2, 4}

\* The loader takes any number as a volume.
ClusterVolumes == {-1, 2}

ClusterSwingShapes ==
    { SwingPoint(0, Bar(0, p, p, p, v), p, "High", ZeroAtr) :
        p \in ClusterPrices, v \in ClusterVolumes }

\* Swings carry their position as index.
Indexed(swings) == [i \in 1..Len(swings) |-> [swings[i] EXCEPT !.index = i - 1]]

ClusterInit ==
    /\ IdleSwings /\ IdleSearch /\ IdleEvt /\ IdleRun
    /\ \E swings \in SeqsUpTo(ClusterSwingShapes, MaxClusterSwings),
          epsilon \in {FInt(0), FInt(1), FInt(2)}, min_points \in {1, 2} :
        call = [ pc         |-> "cluster_swings",
                 swings     |-> Indexed(swings),
                 epsilon    |-> epsilon,
                 min_points |-> min_points,
                 result     |-> [clusters |-> <<>>, inliers |-> <<>>] ]

\* The call of cluster_swings.
ClusterSwings ==
    /\ call.pc = "cluster_swings"
    /\ call' = [call EXCEPT
                  !.pc = "done",
                  !.result = cluster_swings(call.swings, call.epsilon, call.min_points)]
    /\ UNCHANGED notCall

ClusterNext == ClusterSwings

SpecCluster == ClusterInit /\ [][ClusterNext]_vars

\* The sum of the swing counts of the first k clusters.
CountsUpTo(clusters, k) == Sum([i \in 1..k |-> clusters[i].swing_count])

\* C12: every cluster cluster_swings emits has swing_count >= min_points, the
\* swing counts of the clusters sum to at most the number of input swings,
\* and that sum is the number of inliers returned.
C12_ClusterCounts ==
    call.pc = "done" =>
        LET clusters == call.result.clusters
        IN  /\ \A k \in 1..Len(clusters) : clusters[k].swing_count >= call.min_points
            /\ CountsUpTo(clusters, Len(clusters)) <= Len(call.swings)
            /\ CountsUpTo(clusters, Len(clusters)) = Len(call.result.inliers)

\* Two clusters were emitted and a run that was too short was dropped.
C12_Witness ==
    /\ call.pc = "done"
    /\ Len(call.result.clusters) = 2
    /\ Len(call.result.inliers) < Len(call.swings)

\* The prices of the members of cluster k: the inliers are pushed cluster by
\* cluster.
MemberPrices(result, k) ==
    { result.inliers[i].price :
        i \in (CountsUpTo(result.clusters, k - 1) + 1)..CountsUpTo(result.clusters, k) }

\* C13: the representative_price of every emitted cluster is at least the
\* minimum and at most the maximum of the prices of the cluster's members.
C13_RepresentativeWithinMembers ==
    call.pc = "done" =>
        \A k \in 1..Len(call.result.clusters) :
            /\ \E p \in MemberPrices(call.result, k) :
                  FLe(FInt(p), call.result.clusters[k].representative_price)
            /\ \E p \in MemberPrices(call.result, k) :
                  FLe(call.result.clusters[k].representative_price, FInt(p))

-----------------------------------------------------------------------------
(* detect_peaks called on its own; C14, C20 *)

\* Bound of the grid of the density curve.
MaxGridPoints == 7

PeakDensities == {-1, 0, 1, 2}

\* Grid point idx lies at price idx.
GridOf(densities) ==
    [idx \in 1..Len(densities) |-> [price |-> FInt(idx), density |-> densities[idx]]]

PeaksInit ==
    /\ IdleSwings /\ IdleSearch /\ IdleEvt /\ IdleRun
    /\ \E densities \in SeqsUpTo(PeakDensities, MaxGridPoints) :
        call = [ pc      |-> "detect_peaks",
                 density |-> [grid |-> GridOf(densities), max_density |-> MaxOf(densities, 0)],
                 result  |-> <<>> ]

\* The call of detect_peaks.
DetectPeaks ==
    /\ call.pc = "detect_peaks"
    /\ call' = [call EXCEPT !.pc = "done", !.result = detect_peaks(call.density)]
    /\ UNCHANGED notCall

PeaksNext == DetectPeaks

SpecPeaks == PeaksInit /\ [][PeaksNext]_vars

\* The 1-based positions of the interior grid points strictly above both
\* neighbours.
StrictMaxima(grid) ==
    { i \in 2..(Len(grid) - 1) :
        grid[i].density > grid[i - 1].density /\ grid[i].density > grid[i + 1].density }

\* The position of the grid point a peak was taken from.
GridIndexOf(grid, peak) == CHOOSE i \in 1..Len(grid) : grid[i].price = peak.price

\* C14: detect_peaks returns one peak for each interior grid point whose
\* density is strictly greater than that of both neighbours and no other: the
\* end points and the points of a flat top are never peaks.
C14_PeaksAreStrictMaxima ==
    call.pc = "done" =>
        LET grid == call.density.grid
        IN  /\ Len(call.result) = Cardinality(StrictMaxima(grid))
            /\ \A i \in StrictMaxima(grid) :
                  \E k \in 1..Len(call.result) :
                      /\ call.result[k].price = grid[i].price
                      /\ call.result[k].density = grid[i].density
            /\ \A k \in 1..Len(call.result) :
                  \E i \in StrictMaxima(grid) : call.result[k].price = grid[i].price

\* A strict maximum was returned from a grid that also has a flat top and
\* a first point above its neighbour.
C14_Witness ==
    /\ call.pc = "done"
    /\ Len(call.result) >= 1
    /\ LET grid == call.density.grid
       IN  /\ \E i \in 2..(Len(grid) - 2) :
                 /\ grid[i].density = grid[i + 1].density
                 /\ grid[i].density > grid[i - 1].density
                 /\ grid[i + 1].density > grid[i + 2].density
           /\ grid[1].density > grid[2].density

\* C20: the prominence of every peak detect_peaks returns is its density
\* minus the lower of the densities of its two neighbours, so it is positive,
\* and at most the density when no density is negative; the peaks are
\* returned in non-increasing order of prominence.
C20_ProminenceAndOrder ==
    call.pc = "done" =>
        LET grid == call.density.grid
        IN  /\ \A k \in 1..Len(call.result) :
                  LET i == GridIndexOf(grid, call.result[k])
                  IN  /\ call.result[k].prominence =
                            call.result[k].density - Min(grid[i - 1].density, grid[i + 1].density)
                      /\ call.result[k].prominence > 0
                      /\ (\A j \in 1..Len(grid) : grid[j].density >= 0)
                            => call.result[k].prominence <= call.result[k].density
            /\ \A k \in 1..(Len(call.result) - 1) :
                  call.result[k].prominence >= call.result[k + 1].prominence

\* Two peaks of different prominence were returned, the later on the grid
\* first, and the neighbours of one of them differ.
C20_Witness ==
    /\ call.pc = "done"
    /\ Len(call.result) = 2
    /\ call.result[1].prominence > call.result[2].prominence
    /\ FLt(call.result[2].price, call.result[1].price)
    /\ \A j \in 1..Len(call.density.grid) : call.density.grid[j].density >= 0
    /\ LET i == GridIndexOf(call.density.grid, call.result[1])
       IN  call.density.grid[i - 1].density # call.density.grid[i + 1].density

-----------------------------------------------------------------------------
(* compute_atr called on its own; C15 *)

\* Bound of the bars handed to compute_atr.
MaxAtrBars == 4

AtrPrices == {0, 2}

AtrPeriods == {0, 1, 2, 3}

\* The loader orders neither the high and the low nor the close of a bar.
AtrBarShapes == { Bar(0, h, l, c, 1) : h \in AtrPrices, l \in AtrPrices, c \in AtrPrices }

AtrInit ==
    /\ IdleSwings /\ IdleSearch /\ IdleEvt /\ IdleRun
    /\ \E bars \in SeqsUpTo(AtrBarShapes, MaxAtrBars), period \in AtrPeriods :
        call = [ pc     |-> "compute_atr",
                 bars   |-> Stamp(bars),
                 period |-> period,
                 result |-> <<>> ]

\* The call of compute_atr.
ComputeAtr ==
    /\ call.pc = "compute_atr"
    /\ call' = [call EXCEPT !.pc = "done", !.result = compute_atr(call.bars, call.period)]
    /\ UNCHANGED notCall

AtrNext == ComputeAtr

SpecAtr == AtrInit /\ [][AtrNext]_vars

\* Every bar of the series has true range r.
ConstantTrueRange(bars, r) == \A i \in 1..Len(bars) : TrueRange(bars, i - 1) = r

-----------------------------------------------------------------------------
(* detect_swings: thresholds; C16, C18, C19 *)

\* The threshold of the bar at idx (lines 34-38), as a fraction.
ScanThreshold(atr, atr_multiplier, min_swing_distance, idx) ==
    LET atr_val == AtrGet(atr, idx, AtrGet(atr, 0, ZeroAtr))
    IN  FMax(FMax(FAbs(FMul(atr_val, Frac(atr_multiplier, MultDen))),
                  Frac(min_swing_distance, DistDen)),
             Frac(1, 1000 * 1000))

\* The largest difference of two prices of the bars.
PriceRange(bars) ==
    MaxOf([i \in 1..Len(bars) |-> bars[i].high], bars[1].high)
        + MaxOf([i \in 1..Len(bars) |-> -bars[i].low], -bars[1].low)

\* The threshold of every bar of the loop is above every price difference.
ThresholdAboveRange(f) ==
    \A idx \in 1..(Len(f.bars) - 1) :
        FLt(FInt(PriceRange(f.bars)),
            ScanThreshold(f.atr, f.atr_multiplier, f.min_swing_distance, idx))

\* C16: with a threshold larger than any price difference of the series,
\* detect_swings returns one swing, the initial Low at index 0 priced at the
\* low of the first bar.
C16_OnlyTheInitialLow ==
    (swing_scan.pc = "done" /\ swing_scan.bars # <<>> /\ ThresholdAboveRange(swing_scan))
        => /\ Len(swing_scan.result) = 1
           /\ swing_scan.result[1].index = 0
           /\ swing_scan.result[1].swing_type = "Low"
           /\ swing_scan.result[1].price = swing_scan.bars[1].low
           /\ swing_scan.result[1].bar = swing_scan.bars[1]

\* Four bars that rise and fall by 2 were scanned under a threshold of 3.
C16_Witness ==
    /\ swing_scan.pc = "done"
    /\ Len(swing_scan.bars) = 4
    /\ PriceRange(swing_scan.bars) = 2
    /\ swing_scan.bars[2].high > swing_scan.bars[1].low
    /\ swing_scan.bars[3].low < swing_scan.bars[2].high
    /\ ThresholdAboveRange(swing_scan)
    /\ Len(swing_scan.result) = 1

\* diff >= max(min_swing_distance, 1e-6) for an integer price difference.
AtLeastMinDistance(diff, min_swing_distance) ==
    diff * DistDen >= min_swing_distance /\ diff >= 1

\* Every High of swings is above the Low before it, and every later Low
\* below the High before it, by the minimum distance.
SeparatedByMinDistance(swings, min_swing_distance) ==
    \A k \in 2..Len(swings) :
        /\ swings[k].swing_type # swings[k - 1].swing_type
        /\ IF swings[k].swing_type = "High"
           THEN AtLeastMinDistance(swings[k].price - swings[k - 1].price, min_swing_distance)
           ELSE AtLeastMinDistance(swings[k - 1].price - swings[k].price, min_swing_distance)

\* A pass of the loop that confirms a pivot confirms it at a bar after the
\* pivot confirmed last.
ConfirmedAfterLastPivot ==
    (swing_scan.pc = "loop" /\ swing_scan'.pc = "loop"
        /\ Len(swing_scan'.s.swings) > Len(swing_scan.s.swings))
        => /\ swing_scan'.s.last_index > swing_scan.s.last_index
           /\ swing_scan'.s.swings[Len(swing_scan'.s.swings)].index = swing_scan'.s.last_index
           /\ swing_scan'.s.last_index <= swing_scan.idx

\* C18: in the swings detect_swings returns every High is priced above the
\* Low before it by at least max(min_swing_distance, 1e-6) and every Low
\* after the first below the High before it by at least as much, and a pivot
\* is confirmed only at a bar strictly after the last confirmed pivot.
C18_SwingsSeparated ==
    /\ [](swing_scan.pc = "done" =>
             SeparatedByMinDistance(swing_scan.result, swing_scan.min_swing_distance))
    /\ [][ConfirmedAfterLastPivot]_vars

\* A High and a later Low were returned under a minimum distance of 2.
C18_Witness ==
    /\ swing_scan.pc = "done"
    /\ swing_scan.min_swing_distance = 2 * DistDen
    /\ Len(swing_scan.result) = 3
    /\ swing_scan.result[3].index > swing_scan.result[2].index + 1

\* C19: when the ATR series is shorter than the bars, the threshold of a bar
\* past the end of the series is computed from the last value of the series.
C19_LastAtrReused ==
    (swing_scan.pc \in {"loop", "done"} /\ swing_scan.idx > 1
        /\ swing_scan.atr # <<>> /\ swing_scan.idx - 1 >= Len(swing_scan.atr))
        => swing_scan.s.atr_val = swing_scan.atr[Len(swing_scan.atr)]

-----------------------------------------------------------------------------
(* detect_swings: the types and the prices of the swings; C26 *)

\* The swings start with a Low at index 0 and no two neighbours have the
\* same type.
AlternatesFromInitialLow(swings) ==
    /\ swings # <<>>
    /\ swings[1].swing_type = "Low" /\ swings[1].index = 0
    /\ \A k \in 1..Len(swings) :
          swings[k].swing_type = (IF k % 2 = 1 THEN "Low" ELSE "High")

\* Each swing is priced at the high (a High) or the low (a Low) of the bar
\* at its index, of which it carries a copy.
PricedAtOwnBar(swings, bars) ==
    \A k \in 1..Len(swings) :
        /\ swings[k].index + 1 \in 1..Len(bars)
        /\ swings[k].bar = bars[swings[k].index + 1]
        /\ swings[k].price = IF swings[k].swing_type = "High"
                             THEN bars[swings[k].index + 1].high
                             ELSE bars[swings[k].index + 1].low

\* C26: the swings detect_swings returns alternate strictly in type,
\* starting with a Low at index 0, and each is priced at the high (High) or
\* the low (Low) of the bar at its index; the same holds of the swings
\* pushed so far during the scan.
C26_AlternatingPricedAtBar ==
    /\ (swing_scan.pc = "done" /\ swing_scan.bars # <<>>) =>
          /\ AlternatesFromInitialLow(swing_scan.result)
          /\ PricedAtOwnBar(swing_scan.result, swing_scan.bars)
    /\ (swing_scan.pc = "loop" /\ swing_scan.bars # <<>>) =>
          /\ AlternatesFromInitialLow(swing_scan.s.swings)
          /\ PricedAtOwnBar(swing_scan.s.swings, swing_scan.bars)
    /\ (swing_scan.pc = "done" /\ swing_scan.bars = <<>>) => swing_scan.result = <<>>

\* Four swings were returned, Low, High, Low, High, from bars whose highs
\* differ from their lows.
C26_Witness ==
    /\ swing_scan.pc = "done"
    /\ Len(swing_scan.result) = 4
    /\ swing_scan.result[4].swing_type = "High"
    /\ \E k \in 1..Len(swing_scan.bars) : swing_scan.bars[k].high # swing_scan.bars[k].low
    /\ swing_scan.result[2].price > swing_scan.result[2].bar.low

-----------------------------------------------------------------------------
(* combine_level_sets, one secondary level per step; C17 *)

\* Bound of the levels of each of the two sets.
MaxCombineLevels == 2

CombinePrices == {0, 2, 4}

\* The record of a level that was backtested, as run_single_analysis
\* returns its levels.
TestedPerformance ==
    [ touches |-> 1, tests |-> 1, hit_rate |-> FInt(1), avg_reaction |-> FInt(1),
      max_favorable_excursion |-> FInt(1), avg_reaction_bars |-> FInt(1) ]

\* The close of the last bar, which both windows share: levels lie below it,
\* at it and above it.
CombineCurrentPrices == {2}

\* Levels as build_levels leaves them: confidence and band positive, typed
\* and measured against the current price (levels.rs 38-50).
CombineLevelShapes(current_price) ==
    { Level(FInt(p), 1, c[1], c[2],
            IF p >= current_price THEN "Resistance" ELSE "Support",
            TestedPerformance, FAbs(FSub(FInt(p), FInt(current_price)))) :
        p \in CombinePrices, c \in { <<Frac(1, 2), Frac(1, 4)>>, <<FInt(1), FInt(1)>> } }

\* combined after the map over primary (lines 349-356).
ScaledPrimary(primary, primary_weight) ==
    [i \in 1..Len(primary) |->
        [primary[i] EXCEPT !.confidence = FMul(primary[i].confidence, primary_weight),
                           !.performance = EmptyPerformance]]

\* The weights of the call at main.rs 136-142; merge_tolerance is at least 2.
CombineInit ==
    /\ IdleSwings /\ IdleSearch /\ IdleEvt /\ IdleRun
    /\ \E current_price \in CombineCurrentPrices :
       \E primary \in SeqsUpTo(CombineLevelShapes(current_price), MaxCombineLevels),
          secondary \in SeqsUpTo(CombineLevelShapes(current_price), MaxCombineLevels),
          tolerance \in {FInt(2), FInt(3)} :
        call = [ pc               |-> "combine_level_sets",
                 current_price    |-> current_price,
                 primary          |-> primary,
                 secondary        |-> secondary,
                 primary_weight   |-> Frac(7, 10),
                 secondary_weight |-> Frac(3, 10),
                 merge_tolerance  |-> tolerance,
                 combined         |-> ScaledPrimary(primary, Frac(7, 10)),
                 i                |-> 1,
                 result           |-> <<>> ]

\* One pass of the loop over secondary (lines 358-380).
CombineSecondary ==
    /\ call.pc = "combine_level_sets"
    /\ call.i <= Len(call.secondary)
    /\ call' = [call EXCEPT
                  !.combined = CombineOne(call.combined, call.secondary[call.i],
                                          call.secondary_weight, call.merge_tolerance),
                  !.i = call.i + 1]
    /\ UNCHANGED notCall

\* The loop is over: sort by descending confidence and return (382-387).
CombineReturn ==
    /\ call.pc = "combine_level_sets"
    /\ call.i > Len(call.secondary)
    /\ call' = [call EXCEPT !.pc = "done",
                            !.result = StableSort(call.combined, ConfidenceBefore)]
    /\ UNCHANGED notCall

CombineNext == CombineSecondary \/ CombineReturn

SpecCombine == CombineInit /\ [][CombineNext]_vars

\* The stepwise combination returns what combine_level_sets returns.
CombineAgreesWithFunction ==
    call.pc = "done" =>
        call.result = combine_level_sets(call.primary, call.secondary, call.primary_weight,
                                         call.secondary_weight, call.merge_tolerance)

\* The positions of the combined levels within merge_tolerance of price.
WithinTolerance(combined, price, tolerance) ==
    { j \in 1..Len(combined) : FLe(FAbs(FSub(combined[j].price, price)), tolerance) }

\* existing after level was folded into it.
Folded(existing, level) ==
    [existing EXCEPT
        !.price = FDiv(FAdd(FMul(existing.price, existing.confidence),
                            FMul(level.price, level.confidence)),
                       FAdd(existing.confidence, level.confidence)),
        !.confidence = FAdd(existing.confidence, level.confidence),
        !.confidence_band = FDiv(FAdd(existing.confidence_band, level.confidence_band), FInt(2))]

\* A pass of the loop folds the scaled secondary level into one combined
\* level within merge_tolerance of it, or appends it when there is none.
FoldedOrAppended ==
    (call.pc = "combine_level_sets" /\ call'.pc = "combine_level_sets")
        => LET secondary_level == call.secondary[call.i]
               level  == [secondary_level EXCEPT
                            !.confidence = FMul(secondary_level.confidence, Frac(3, 10)),
                            !.performance = EmptyPerformance]
               within == WithinTolerance(call.combined, level.price, call.merge_tolerance)
           IN  IF within = {}
               THEN call'.combined = Append(call.combined, level)
               ELSE \E j \in within :
                       call'.combined = [call.combined EXCEPT ![j] = Folded(call.combined[j], level)]

\* Before the loop every primary level is there, scaled and reset; the
\* output has at least |primary| and at most |primary| + |secondary| levels,
\* in descending order of confidence.
KeptBoundedSorted ==
    /\ (call.pc = "combine_level_sets" /\ call.i = 1) =>
          /\ Len(call.combined) = Len(call.primary)
          /\ \A k \in 1..Len(call.primary) :
                /\ call.combined[k].price = call.primary[k].price
                /\ call.combined[k].confidence = FMul(call.primary[k].confidence, Frac(7, 10))
                /\ call.combined[k].performance = EmptyPerformance
    /\ call.pc \in {"combine_level_sets", "done"} =>
          \A k \in 1..Len(call.primary) :
             /\ call.combined[k].performance = EmptyPerformance
             /\ FLe(FMul(call.primary[k].confidence, Frac(7, 10)), call.combined[k].confidence)
    /\ call.pc = "done" =>
          /\ Len(call.result) >= Len(call.primary)
          /\ Len(call.result) <= Len(call.primary) + Len(call.secondary)
          /\ \A k \in 1..(Len(call.result) - 1) :
                FLe(call.result[k + 1].confidence, call.result[k].confidence)

\* C17: combine_level_sets keeps every primary level, its confidence scaled
\* by the primary weight and its performance reset; each secondary level in
\* turn, scaled by the secondary weight, is folded into a combined level
\* when one lies within merge_tolerance of it at that moment and appended
\* when none does; the output has between |primary| and |primary| +
\* |secondary| levels, sorted by descending confidence.
C17_CombineFoldsOrAppends ==
    /\ []KeptBoundedSorted
    /\ [][FoldedOrAppended]_vars

\* A secondary level was folded into a primary level and moved it out of the
\* reach of the next one, which was appended.
C17_Witness ==
    /\ call.pc = "done"
    /\ Len(call.primary) = 1
    /\ Len(call.secondary) = 2
    /\ Len(call.result) = 2
    /\ FLe(FAbs(FSub(call.primary[1].price, call.secondary[2].price)), call.merge_tolerance)
    /\ call.result[1].price # call.primary[1].price

-----------------------------------------------------------------------------
(* evaluate_levels applied to levels that were tested before, and applied
   again to its own result; C28 *)

\* Bound of the levels handed to the evaluation.
MaxReEvalLevels == 2

\* Levels of either type, fresh from build_levels or backtested before,
\* with fields that differ from level to level.
ReEvalLevelShapes ==
    { Level(FInt(1), 1, Frac(1, 2), FInt(1), "Support", perf, FInt(1)) :
        perf \in {EmptyPerformance, TestedPerformance} }
    \cup
    { Level(Frac(5, 2), 2, FInt(1), Frac(3, 4), "Resistance", perf, Frac(1, 2)) :
        perf \in {EmptyPerformance, TestedPerformance} }

\* Flat bars at 0 and at 2, and bars from 0 to 2.
ReEvalBarShapes == {Bar(0, c[1], c[2], c[2], 1) : c \in {<<0, 0>>, <<2, 0>>, <<2, 2>>}}

ReEvalInit ==
    /\ IdleSwings /\ IdleSearch /\ IdleEvt /\ IdleRun
    /\ \E bars \in SeqsUpTo(ReEvalBarShapes, MaxEvalBars), atr \in {<<>>, <<FInt(2)>>},
          levels \in SeqsUpTo(ReEvalLevelShapes, MaxReEvalLevels) :
        call = [ pc                 |-> "evaluate_levels",
                 levels             |-> levels,
                 bars               |-> Stamp(bars),
                 atr                |-> atr,
                 reaction_lookahead |-> 2,
                 reaction_move_atr  |-> Frac(1, 2),
                 result             |-> <<>>,
                 again              |-> <<>> ]

\* evaluate_levels called on its own result with the same bars, ATR and
\* parameters.
ReEvaluateLevels ==
    /\ call.pc = "done"
    /\ call' = [call EXCEPT
                  !.pc = "again",
                  !.again = evaluate_levels(call.result, call.bars, call.atr,
                                            call.reaction_lookahead, call.reaction_move_atr)]
    /\ UNCHANGED notCall

ReEvalNext == EvaluateLevels \/ ReEvaluateLevels

SpecReEval == ReEvalInit /\ [][ReEvalNext]_vars

\* The levels with the empty performance record in place of their own.
Untested(levels) == [i \in 1..Len(levels) |-> [levels[i] EXCEPT !.performance = EmptyPerformance]]

\* C28: evaluate_levels changes only the performance field, the number and
\* the order of the levels and every other field being as before; the new
\* performance does not depend on the one the level held, so evaluating the
\* result again gives the result; with no bars the levels come back as they
\* were.
C28_OnlyPerformanceChanges ==
    call.pc \in {"done", "again"} =>
        /\ Len(call.result) = Len(call.levels)
        /\ \A i \in 1..Len(call.levels) :
              /\ call.result[i].price = call.levels[i].price
              /\ call.result[i].density = call.levels[i].density
              /\ call.result[i].confidence = call.levels[i].confidence
              /\ call.result[i].confidence_band = call.levels[i].confidence_band
              /\ call.result[i].level_type = call.levels[i].level_type
              /\ call.result[i].distance_from_last = call.levels[i].distance_from_last
              /\ call.bars # <<>> =>
                    call.result[i].performance
                        = LevelPerformance(Untested(call.levels)[i], call.bars, call.atr,
                                           call.reaction_lookahead, call.reaction_move_atr)
        /\ call.bars = <<>> => call.result = call.levels
        /\ call.pc = "again" => call.again = call.result

\* Two different levels, both tested before, were evaluated twice on bars
\* that touch the first one: its record was replaced, the rest was kept.
C28_Witness ==
    /\ call.pc = "again"
    /\ Len(call.levels) = 2
    /\ call.levels[1].level_type # call.levels[2].level_type
    /\ \A i \in 1..2 : call.levels[i].performance = TestedPerformance
    /\ call.result[1].performance.tests > 1
    /\ call.result[2].performance = EmptyPerformance
    /\ call.again = call.result

-----------------------------------------------------------------------------
(* combine_level_sets: the types of the combined levels; C27 *)

\* The type build_levels gives a level of this price (levels.rs 38-42).
TypedAgainst(level, current_price) ==
    IF level.level_type = "Support"
    THEN FLt(level.price, FInt(current_price))
    ELSE FLe(FInt(current_price), level.price)

\* C27: given two level sets typed against the same current price, every
\* level combine_level_sets returns is typed consistently with its price,
\* merged or not: a Support lies below the current price, a Resistance at
\* or above it.
C27_CombinedTypedConsistently ==
    (/\ call.pc = "done"
     /\ \A k \in 1..Len(call.primary) : TypedAgainst(call.primary[k], call.current_price)
     /\ \A k \in 1..Len(call.secondary) : TypedAgainst(call.secondary[k], call.current_price))
        => \A k \in 1..Len(call.result) : TypedAgainst(call.result[k], call.current_price)

-----------------------------------------------------------------------------
(* build_levels called on the peaks of a density curve; C21 *)

\* Densities of a kernel estimate: none negative.
LevelDensities == {0, 1, 2}

LevelCurrentPrices == {0, 4, 8}

\* The peaks are those detect_peaks returns for a grid of up to
\* MaxGridPoints points, as in run_single_analysis (main.rs 506-534).
LevelsInit ==
    /\ IdleSwings /\ IdleSearch /\ IdleEvt /\ IdleRun
    /\ \E densities \in SeqsUpTo(LevelDensities, MaxGridPoints),
          current_price \in LevelCurrentPrices, mean_atr \in {FInt(0), FInt(1)},
          max_levels \in 0..3 :
        call = [ pc            |-> "build_levels",
                 peaks         |-> detect_peaks([grid |-> GridOf(densities),
                                                 max_density |-> MaxOf(densities, 0)]),
                 max_density   |-> MaxOf(densities, 0),
                 current_price |-> current_price,
                 mean_atr      |-> mean_atr,
                 confidence_band_multiplier |-> Frac(1, 2),
                 max_levels    |-> max_levels,
                 result        |-> <<>> ]

\* The call of build_levels.
BuildLevels ==
    /\ call.pc = "build_levels"
    /\ call' = [call EXCEPT
                  !.pc = "done",
                  !.result = build_levels(call.peaks, call.max_density, call.current_price,
                                          call.mean_atr, call.confidence_band_multiplier,
                                          call.max_levels)]
    /\ UNCHANGED notCall

LevelsNext == BuildLevels

SpecLevels == LevelsInit /\ [][LevelsNext]_vars

\* The confidence build_levels gives the peak at position i of f.peaks.
PeakConfidence(f, i) ==
    LevelOfPeak(f.peaks[i], f.max_density,
                MaxOf([k \in 1..Len(f.peaks) |-> f.peaks[k].prominence], 0),
                f.current_price, f.mean_atr, f.confidence_band_multiplier).confidence

\* The positions of the peaks that no returned level stands for.
LeftOut(f) ==
    { i \in 1..Len(f.peaks) : \A k \in 1..Len(f.result) : f.result[k].price # f.peaks[i].price }

\* C21: build_levels returns min(number of peaks, max_levels) levels in
\* non-increasing order of confidence, no peak left out has a confidence
\* above that of a level kept, every level is a Resistance exactly when its
\* price is at least current_price and a Support otherwise, and every
\* confidence_band is positive.
C21_LevelsOrderedTruncatedTyped ==
    call.pc = "done" =>
        /\ Len(call.result) = Min(Len(call.peaks), call.max_levels)
        /\ \A k \in 1..(Len(call.result) - 1) :
              FLe(call.result[k + 1].confidence, call.result[k].confidence)
        /\ \A i \in LeftOut(call) : \A k \in 1..Len(call.result) :
              FLe(PeakConfidence(call, i), call.result[k].confidence)
        /\ \A k \in 1..Len(call.result) :
              /\ call.result[k].level_type \in {"Resistance", "Support"}
              /\ call.result[k].level_type = "Resistance"
                    <=> FLe(FInt(call.current_price), call.result[k].price)
              /\ FLt(FInt(0), call.result[k].confidence_band)
              /\ \E i \in 1..Len(call.peaks) : call.result[k].price = call.peaks[i].price

\* Of three peaks two were kept, one of each type and one priced at
\* current_price, and the one left out has a lower confidence; the band is
\* the fallback.
C21_Witness ==
    /\ call.pc = "done"
    /\ Len(call.peaks) = 3
    /\ Len(call.result) = 2
    /\ call.mean_atr = FInt(0)
    /\ \E k \in 1..2 : call.result[k].level_type = "Support"
    /\ \E k \in 1..2 : call.result[k].price = FInt(call.current_price)
    /\ \E i \in LeftOut(call) : FLt(PeakConfidence(call, i), call.result[2].confidence)

-----------------------------------------------------------------------------
(* run_single_analysis, lines 485-498: the clustering and what is passed on
   to the density; C22 *)

\* dbscan_eps_factor of the configuration.
EpsFactors == {Frac(1, 2), FInt(1)}

AnalysisClusterInit ==
    /\ IdleSwings /\ IdleSearch /\ IdleEvt /\ IdleRun
    /\ \E swings \in SeqsUpTo(ClusterSwingShapes, MaxClusterSwings),
          factor \in EpsFactors, min_points \in {0, 2} :
        call = [ pc               |-> "cluster",
                 swings           |-> Indexed(swings),
                 epsilon          |-> ClusterEpsilon(auto_dbscan_epsilon(Indexed(swings)),
                                                     FInt(0), 0,
                                                     [dbscan_eps_factor |-> factor]),
                 min_points       |-> min_points,
                 clusters         |-> <<>>,
                 inliers          |-> <<>>,
                 clustered_swings |-> <<>> ]

\* let ClusterResult { clusters, inliers } = cluster_swings(...) (492-493)
AnalysisCluster ==
    /\ call.pc = "cluster"
    /\ LET r == cluster_swings(call.swings, call.epsilon, call.min_points)
       IN  call' = [call EXCEPT !.pc = "select", !.clusters = r.clusters,
                                !.inliers = r.inliers]
    /\ UNCHANGED notCall

\* let clustered_swings = ... (494-498)
AnalysisSelect ==
    /\ call.pc = "select"
    /\ call' = [call EXCEPT !.pc = "done",
                            !.clustered_swings = clustered_swings(call.swings, call.inliers)]
    /\ UNCHANGED notCall

AnalysisClusterNext == AnalysisCluster \/ AnalysisSelect

SpecAnalysisCluster == AnalysisClusterInit /\ [][AnalysisClusterNext]_vars

\* C22: the swings run_single_analysis passes on to the density estimation
\* are the inliers of the emitted clusters when a cluster qualifies and all
\* the detected swings when none does; the swings of runs that were too
\* small are passed on in the latter case only.
C22_InliersOrAllSwings ==
    call.pc = "done" =>
        IF call.clusters # <<>>
        THEN /\ call.clustered_swings = call.inliers
             /\ Len(call.clustered_swings) = CountsUpTo(call.clusters, Len(call.clusters))
        ELSE call.clustered_swings = call.swings

\* A cluster qualified, a run that was too small did not, and its swing was
\* not passed on.
C22_Witness ==
    /\ call.pc = "done"
    /\ call.clusters # <<>>
    /\ \E i \in 1..Len(call.swings) :
          \A k \in 1..Len(call.clustered_swings) :
              call.clustered_swings[k].index # call.swings[i].index

\* No cluster qualified and all the swings were passed on.
C22_WitnessFallback ==
    /\ call.pc = "done"
    /\ call.clusters = <<>>
    /\ Len(call.swings) >= 2
    /\ call.clustered_swings = call.swings

-----------------------------------------------------------------------------
(* compute_evt_resistances: the anchored fallback; C23 *)

\* The call returned the fallback level, computed from current_price
\* (lines 104-108): max_high + step did not exceed current_price.
AnchoredFallback ==
    /\ EvtFitted
    /\ evt.levels = <<>>
    /\ Len(evt.result) = 1
    /\ FLe(FAdd(FInt(evt.max_high), FMax(evt.confidence_band, FInt(1))),
           FInt(evt.current_price))

\* min(current_price + step, max_high + 5 * step)
AnchoredPrice ==
    FMin(FAdd(FInt(evt.current_price), FMax(evt.confidence_band, FInt(1))),
         FAdd(FInt(evt.max_high), EvtReach))

\* The positions of the projections of the tail probabilities of a call.
GpdChoices(tail_probs) == [1..Len(tail_probs) -> {"lower", "mid", "upper"}]

\* What compute_evt_resistances returns for the arguments in is one level,
\* the fallback anchored to current_price, priced below the threshold.
AnchoredBelowThreshold(in, result) ==
    /\ Len(result) = 1
    /\ result[1].price = FMin(FAdd(FInt(in.current_price), FMax(in.confidence_band, FInt(1))),
                              FAdd(FInt(EvtMaxHigh(in.bars)),
                                   FMul(FMax(in.confidence_band, FInt(1)), FInt(5))))
    /\ FLt(result[1].price, FInt(EvtThreshold(in.bars, in.threshold_quantile)))

\* C23, as stated: there are arguments for which compute_evt_resistances
\* returns a fallback level, anchored to current_price and capped at
\* max_high + 5 * step, whose price is below the exceedance threshold.
\* Stated where a call starts, over the arguments of all the calls.
C23_SomeAnchoredFallbackBelowThreshold ==
    evt.pc = "enter" =>
        \E in \in EvtInputs : \E gpd \in GpdChoices(in.tail_probs) :
            AnchoredBelowThreshold(in, compute_evt_resistances(in.bars, in.tail_probs,
                                                               in.threshold_quantile,
                                                               in.confidence_band,
                                                               in.current_price, gpd))

\* C23, amended: a fallback level anchored to current_price is priced at
\* min(current_price + step, max_high + 5 * step), which is above the
\* maximum high and so above the exceedance threshold, in every call.
C23_AnchoredFallbackAboveThreshold ==
    AnchoredFallback =>
        /\ evt.result[1].price = AnchoredPrice
        /\ FLt(FInt(evt.max_high), evt.result[1].price)
        /\ FLt(FInt(evt.threshold), evt.result[1].price)
        /\ evt.threshold < evt.max_high

\* An anchored fallback level was capped at max_high + 5 * step.
C23_Witness ==
    /\ AnchoredFallback
    /\ evt.result[1].price = FAdd(FInt(evt.max_high), EvtReach)
    /\ FLt(evt.result[1].price, FInt(evt.current_price))

=============================================================================
